---- MODULE Spec2Model ----
(***************************************************************************)
(* Head-tilt text controller (text-controller-mvp/src/app).                *)
(*                                                                         *)
(* Conventions of the model                                                *)
(*   - a Python str is a sequence of one-character strings;                *)
(*   - time.time() is the variable now, in tenths of a second; every read  *)
(*     of the clock inside one update() returns the same value;            *)
(*   - roll and pitch are integers in hundredths;                          *)
(*   - dwell_percent is a fraction of ONE (see DwellPercent).              *)
(***************************************************************************)
EXTENDS Integers, Sequences, FiniteSets, TLC

\* ------------------------------------------------------------------ bounds

\* time.time() when AppState is constructed
ConstructTime == 50
\* update() is not called once the clock has passed ConstructTime + MaxTime
MaxTime == 90
\* number of letters kept in the alphabet ring
NumLetters == 2
\* the recognizer stops producing lines once the transcript holds MaxLines
MaxLines == 2

\* ----------------------------------------------------------------- strings

LowerChars == <<"a","b","c","d","e","f","g","h","i","j","k","l","m",
                "n","o","p","q","r","s","t","u","v","w","x","y","z">>
UpperChars == <<"A","B","C","D","E","F","G","H","I","J","K","L","M",
                "N","O","P","Q","R","S","T","U","V","W","X","Y","Z">>

\* the characters str.strip() and str.split() treat as whitespace
IsSpace(c) == c \in {" ", "\t", "\n"}

UpperChar(c) ==
  IF \E i \in 1..Len(LowerChars) : LowerChars[i] = c
  THEN UpperChars[CHOOSE i \in 1..Len(LowerChars) : LowerChars[i] = c]
  ELSE c

\* str.upper()
Upper(s) == [i \in 1..Len(s) |-> UpperChar(s[i])]

RECURSIVE LStrip(_)
LStrip(s) == IF s # <<>> /\ IsSpace(Head(s)) THEN LStrip(Tail(s)) ELSE s

RECURSIVE RStrip(_)
RStrip(s) ==
  IF s # <<>> /\ IsSpace(s[Len(s)]) THEN RStrip(SubSeq(s, 1, Len(s) - 1)) ELSE s

\* str.strip()
Strip(s) == RStrip(LStrip(s))

\* str.split(): words between runs of whitespace, never an empty word
RECURSIVE SplitWsAcc(_, _, _)
SplitWsAcc(s, cur, acc) ==
  IF s = <<>>
  THEN IF cur = <<>> THEN acc ELSE Append(acc, cur)
  ELSE IF IsSpace(Head(s))
       THEN SplitWsAcc(Tail(s), <<>>, IF cur = <<>> THEN acc ELSE Append(acc, cur))
       ELSE SplitWsAcc(Tail(s), Append(cur, Head(s)), acc)

SplitWs(s) == SplitWsAcc(s, <<>>, <<>>)

\* str.split(" "): cut at every single space, empty pieces kept
RECURSIVE SplitSpaceAcc(_, _, _)
SplitSpaceAcc(s, cur, acc) ==
  IF s = <<>>
  THEN Append(acc, cur)
  ELSE IF Head(s) = " "
       THEN SplitSpaceAcc(Tail(s), <<>>, Append(acc, cur))
       ELSE SplitSpaceAcc(Tail(s), Append(cur, Head(s)), acc)

SplitSpace(s) == SplitSpaceAcc(s, <<>>, <<>>)

\* " ".join(words)
RECURSIVE JoinSpace(_)
JoinSpace(ws) ==
  IF ws = <<>> THEN <<>>
  ELSE IF Len(ws) = 1 THEN ws[1]
  ELSE ws[1] \o <<" ">> \o JoinSpace(Tail(ws))

\* str.startswith(p)
StartsWith(w, p) == Len(p) <= Len(w) /\ SubSeq(w, 1, Len(p)) = p

\* s[:-1]
DropLast(s) == IF s = <<>> THEN <<>> ELSE SubSeq(s, 1, Len(s) - 1)

\* membership in a list
InSeq(x, s) == \E i \in 1..Len(s) : s[i] = x

\* a slice that does not cut
TakeAll(s, n) == s

\* s[:n]
Take(s, n) == SubSeq(s, 1, IF Len(s) < n THEN Len(s) ELSE n)

Min(a, b) == IF a < b THEN a ELSE b
Max(a, b) == IF a > b THEN a ELSE b

\* --------------------------------------------------------- input_processor

\* DEADZONE_RADIUS = 0.12, in hundredths
DEADZONE_RADIUS == 12

\* tan(22.5 - DEAD_BAND_DEG) = tan(12.5 degrees), in millionths: a sample is
\* within 12.5 degrees of a sector centre iff its component across the centre's
\* direction is at most tan(12.5) times its component along it
TAN_SECTOR_HALF_WIDTH == 221695
TAN_SCALE == 1000000

DIR_CENTER == "CENTER"
DIR_N == "N"
DIR_NE == "NE"
DIR_E == "E"
DIR_SE == "SE"
DIR_S == "S"
DIR_SW == "SW"
DIR_W == "W"
DIR_NW == "NW"

CARDINALS == {DIR_N, DIR_S, DIR_E, DIR_W}
DIAGONALS == {DIR_NE, DIR_NW, DIR_SE, DIR_SW}
Directions == {DIR_CENTER} \cup CARDINALS \cup DIAGONALS

\* _DIRECTIONS, in the order the loop tries them; x = -roll, y = pitch are the
\* arguments of atan2. along/across are the sample's components along and
\* across the sector's centre direction (scaled by sqrt 2 for the diagonals).
SectorTable(x, y) ==
  << [dir |-> DIR_E,  along |-> x,      across |-> y],
     [dir |-> DIR_NE, along |-> x + y,  across |-> y - x],
     [dir |-> DIR_N,  along |-> y,      across |-> -x],
     [dir |-> DIR_NW, along |-> y - x,  across |-> -x - y],
     [dir |-> DIR_W,  along |-> -x,     across |-> -y],
     [dir |-> DIR_SW, along |-> -x - y, across |-> x - y],
     [dir |-> DIR_S,  along |-> -y,     across |-> x],
     [dir |-> DIR_SE, along |-> x - y,  across |-> x + y] >>

Abs(v) == IF v < 0 THEN -v ELSE v

\* a sector test with no dead band: half-width 22.5 degrees, tan = 0.414214
InSectorNoDeadBand(e) ==
  e.along > 0 /\ Abs(e.across) * TAN_SCALE <= e.along * 414214

\* dist <= 22.5 - DEAD_BAND_DEG for one sector
InSector(e) ==
  e.along > 0 /\ Abs(e.across) * TAN_SCALE <= e.along * TAN_SECTOR_HALF_WIDTH

\* _snap_direction without the deadzone test
SnapDirectionNoDeadzone(roll, pitch) ==
  LET t == SectorTable(-roll, pitch)
      hit == {i \in 1..Len(t) : InSector(t[i])}
  IN IF hit = {} THEN DIR_CENTER
     ELSE t[CHOOSE i \in hit : \A j \in hit : i <= j].dir

\* _snap_direction(roll, pitch)
SnapDirection(roll, pitch) ==
  IF roll * roll + pitch * pitch < DEADZONE_RADIUS * DEADZONE_RADIUS
  THEN DIR_CENTER
  ELSE LET t == SectorTable(-roll, pitch)
           hit == {i \in 1..Len(t) : InSector(t[i])}
       IN IF hit = {} THEN DIR_CENTER
          ELSE t[CHOOSE i \in hit : \A j \in hit : i <= j].dir

\* ------------------------------------------------------------------- state

VARIABLES
  \* the clock
  now,
  \* PredictiveText: the five tables (a dict is a function on its keys)
  unigrams, bigrams, trigrams, quadrigrams, pentagrams,
  \* InputProcessor
  direction, current_dir, dwell_start, dwell_seconds,
  \* AppState
  mode, sentence, prefix, cursor_index, sugg_index, suggestions,
  ngram_level, ngram_context, transcript_scroll, last_scroll_time,
  diagonal_fired, flash_direction, flash_end, center_cooldown_until,
  was_off_center,
  \* Captioner
  transcript, partial, paused,
  \* TTSQueue: the queue, and the arguments of every speak() call so far
  tts_q, speak_calls,
  \* the exception that ended the last update(), "none" if it returned
  raised,
  \* history, read by the properties only: what the last update() did, when
  \* the current run of ticks with one classified direction began, and how
  \* many diagonal actions fired in it
  last, run_start, run_fires,
  \* the scripted user: which script it follows (0: none), the step of the
  \* script it is holding, and the clock at the first tick of that step
  script, pos, phase_start,
  \* the clock at the last tick on which a cardinal step took effect (0: none
  \* yet), kept by the user who only steps
  effect_time,
  \* the predictor called on its own: the last call and what it returned
  query, result

clock_vars == <<now>>
table_vars == <<unigrams, bigrams, trigrams, quadrigrams, pentagrams>>
input_vars == <<direction, current_dir, dwell_start, dwell_seconds>>
app_vars == <<mode, sentence, prefix, cursor_index, sugg_index, suggestions,
              ngram_level, ngram_context, transcript_scroll, last_scroll_time,
              diagonal_fired, flash_direction, flash_end,
              center_cooldown_until, was_off_center>>
cap_vars == <<transcript, partial, paused>>
tts_vars == <<tts_q, speak_calls>>
hist_vars == <<last, run_start, run_fires>>
script_vars == <<script, pos, phase_start, effect_time>>
query_vars == <<query, result>>
vars == <<clock_vars, table_vars, input_vars, app_vars, cap_vars, tts_vars,
          raised, hist_vars, script_vars, query_vars>>

\* --------------------------------------------------------------- predictor

\* the level and context shown before any table answered (an em dash)
NoLevel == "-"
Dash == <<"-">>

EmptyTable == [k \in {} |-> <<>>]

\* the list _load_unigrams falls back to when the file is missing
DefaultUnigrams ==
  << <<"T","H","E">>, <<"A","N","D">>, <<"Y","O","U">>, <<"T","H","A","T">>,
     <<"W","A","S">>, <<"F","O","R">>, <<"A","R","E">>, <<"W","I","T","H">>,
     <<"T","H","I","S">>, <<"H","A","V","E">> >>

\* the list _load_unigrams builds from a data file with these rows
LoadedUnigrams ==
  << <<"T","H","E">>, <<"A","N","D">>, <<"Y","O","U">>,
     <<"W","O","R","L","D">>, <<"H","I">>, <<"H","A","V","E">> >>

\* dict.get(key, [])
TableGet(table, key) == IF key \in DOMAIN table THEN table[key] ELSE <<>>

\* _filter_by_prefix letting every word through
FilterByPrefixAll(words, pfx) == words

\* _filter_by_prefix(words, prefix)
FilterByPrefix(words, pfx) ==
  IF pfx = <<>> THEN words
  ELSE SelectSeq(words, LAMBDA w : StartsWith(w, pfx))

\* _merge without the seen set
MergeNoDedup(primary, secondary) == primary \o secondary

\* _merge(primary, secondary)
Merge(primary, secondary) ==
  primary \o SelectSeq(secondary, LAMBDA w : ~InSeq(w, primary))

\* steps 1-3 of get_suggestions: one context table of order k+1, keyed by the
\* last k words; hits replace what the longer contexts found
ContextStep(s, table, prev_words, k, pfx, max_results, lvl) ==
  LET n == Len(prev_words)
      key == SubSeq(prev_words, n - k + 1, n)
      hits == FilterByPrefix(TableGet(table, key), pfx)
  IN IF Len(s.cands) < max_results /\ n >= k /\ DOMAIN table # {} /\ hits # <<>>
     THEN [cands |-> hits, level |-> lvl, ctx |-> JoinSpace(key)]
     ELSE s

\* step 4: the bigram table, keyed by the last word; hits are merged in
BigramStep(s, prev_words, pfx, max_results) ==
  LET n == Len(prev_words)
      extra == FilterByPrefix(TableGet(bigrams, prev_words[n]), pfx)
  IN IF Len(s.cands) < max_results /\ n >= 1 /\ DOMAIN bigrams # {}
     THEN [cands |-> Merge(s.cands, extra),
           level |-> IF s.level = NoLevel /\ extra # <<>> THEN "2G" ELSE s.level,
           ctx |-> IF s.level = NoLevel /\ extra # <<>>
                   THEN prev_words[n] ELSE s.ctx]
     ELSE s

\* step 5: prefix-matching unigrams are merged in
UnigramStep(s, pfx, max_results) ==
  LET extra == FilterByPrefix(unigrams, pfx)
  IN IF Len(s.cands) < max_results
     THEN [cands |-> Merge(s.cands, extra),
           level |-> IF s.level = NoLevel /\ extra # <<>> THEN "1G" ELSE s.level,
           ctx |-> IF s.level = NoLevel /\ extra # <<>>
                   THEN (IF pfx # <<>> THEN pfx ELSE Dash) ELSE s.ctx]
     ELSE s

\* step 6 leaving the level as the earlier steps set it
LastResortKeepsLevel(s, max_results) ==
  IF s.cands = <<>>
  THEN [cands |-> Take(unigrams, max_results), level |-> s.level, ctx |-> Dash]
  ELSE s

\* step 6: the most common words
LastResort(s, max_results) ==
  IF s.cands = <<>>
  THEN [cands |-> Take(unigrams, max_results), level |-> "1G", ctx |-> Dash]
  ELSE s

\* step 1 of get_suggestions: the pentagram table, keyed by the last 4 words
PentagramStep(s, prev_words, pfx) ==
  LET n == Len(prev_words)
      key == SubSeq(prev_words, n - 3, n)
      hits == FilterByPrefix(TableGet(pentagrams, key), pfx)
  IN IF n >= 4 /\ DOMAIN pentagrams # {} /\ hits # <<>>
     THEN [cands |-> hits, level |-> "5G", ctx |-> JoinSpace(key)]
     ELSE s

\* get_suggestions(current_input, context, max_results)
GetSuggestions(current_input, context, max_results) ==
  LET pfx == Upper(Strip(current_input))
      prev_words == IF Strip(context) # <<>>
                    THEN SplitWs(Upper(Strip(context))) ELSE <<>>
      s0 == [cands |-> <<>>, level |-> NoLevel, ctx |-> <<>>]
      s1 == PentagramStep(s0, prev_words, pfx)
      s2 == ContextStep(s1, quadrigrams, prev_words, 3, pfx, max_results, "4G")
      s3 == ContextStep(s2, trigrams, prev_words, 2, pfx, max_results, "3G")
      s4 == BigramStep(s3, prev_words, pfx, max_results)
      s5 == UnigramStep(s4, pfx, max_results)
      s6 == LastResort(s5, max_results)
  IN [cands |-> Take(s6.cands, max_results), level |-> s6.level, ctx |-> s6.ctx]

\* ------------------------------------------------------------------ tts.py

\* TTSQueue.speak(text), on the record st of the controller's fields
Speak(st, text) ==
  LET t == Strip(text)
  IN [st EXCEPT !.speak_calls = Append(@, text),
                !.tts_q = IF t = <<>> THEN @ ELSE Append(@, t)]

\* ------------------------------------------------------------- captioner.py

\* get_last_word taking the first word of the last line instead
GetFirstWord(lines) ==
  IF lines = <<>> THEN <<>>
  ELSE LET words == SplitWs(lines[Len(lines)])
       IN IF words # <<>> THEN words[1] ELSE <<>>

\* Captioner.get_last_word()
GetLastWord(lines) ==
  IF lines = <<>> THEN <<>>
  ELSE LET words == SplitWs(lines[Len(lines)])
       IN IF words # <<>> THEN words[Len(words)] ELSE <<>>

\* Captioner.clear() that leaves the lines in place
CaptionerClearKeeps(st) == [st EXCEPT !.partial = <<>>]

\* Captioner.clear()
CaptionerClear(st) == [st EXCEPT !.transcript = <<>>, !.partial = <<>>]

\* Captioner.toggle_pause()
TogglePause(st) == [st EXCEPT !.paused = ~@]

\* ------------------------------------------------------------- app_state.py

MODE_WRITE == "WRITE"
MODE_CAPTION == "CAPTION"

\* tenths of a second
DWELL_CENTER_SEC == 30
DWELL_DIAGONAL_SEC == 20
SCROLL_COOLDOWN_SEC == 5
CENTER_COOLDOWN_SEC == 10
FLASH_SEC == 3

\* max_results of the controller's get_suggestions call
MAX_RESULTS == 3

\* _diagonal_fired = False, and flash_direction = None
NotFired == "False"
None == "None"

\* font.ALPHABET: letters, then the control glyphs. The ring keeps the first
\* NumLetters letters of LetterPool.
LetterPool == <<"H", "I", "T", "A", "E", "W">>
ALPHABET == SubSeq(LetterPool, 1, NumLetters) \o <<"_", "<", "[", "]", ".">>

\* whether the module binds the name log that _send_message reads
LogDefined == FALSE

\* dwell_percent = 1.0
ONE == DWELL_CENTER_SEC * DWELL_DIAGONAL_SEC

\* dwell_percent without the clamp on the diagonal branch
DwellPercentUnclamped(st, t) ==
  IF st.direction = DIR_CENTER
  THEN IF st.mode = MODE_CAPTION THEN 0
       ELSE IF t < st.center_cooldown_until THEN 0
       ELSE LET remaining_cooldown ==
                  Max(0, st.center_cooldown_until - (t - st.dwell_seconds))
                active_time == st.dwell_seconds - remaining_cooldown
            IN Min(ONE, Max(0, active_time * DWELL_DIAGONAL_SEC))
  ELSE IF st.direction \in DIAGONALS
       THEN st.dwell_seconds * DWELL_CENTER_SEC
       ELSE 0

\* AppState.dwell_percent at clock t, as a fraction of ONE
DwellPercent(st, t) ==
  IF st.direction = DIR_CENTER
  THEN IF st.mode = MODE_CAPTION THEN 0
       ELSE IF t < st.center_cooldown_until THEN 0
       ELSE LET remaining_cooldown ==
                  Max(0, st.center_cooldown_until - (t - st.dwell_seconds))
                active_time == st.dwell_seconds - remaining_cooldown
            IN Min(ONE, Max(0, active_time * DWELL_DIAGONAL_SEC))
  ELSE IF st.direction \in DIAGONALS
       THEN Min(ONE, st.dwell_seconds * DWELL_CENTER_SEC)
       ELSE 0

\* InputProcessor.reset_dwell()
ResetDwell(st, t) == [st EXCEPT !.dwell_start = t, !.dwell_seconds = 0]

\* AppState._flash(direction)
Flash(st, dirn, t) ==
  [st EXCEPT !.flash_direction = dirn, !.flash_end = t + FLASH_SEC]

\* _backspace that never reaches into the sentence
BackspacePrefixOnly(st) ==
  IF st.prefix # <<>> THEN [st EXCEPT !.prefix = DropLast(@)] ELSE st

\* AppState._backspace()
Backspace(st) ==
  IF st.prefix # <<>> THEN [st EXCEPT !.prefix = DropLast(@)]
  ELSE IF st.sentence # <<>> THEN [st EXCEPT !.sentence = DropLast(@)]
  ELSE st

\* _delete_word splitting on runs of white space, split(), not on single
\* spaces, split(" ")
DeleteWordSplitWs(st) ==
  IF st.prefix # <<>> THEN [st EXCEPT !.prefix = <<>>]
  ELSE LET words == SplitWs(Strip(st.sentence))
           joined == JoinSpace(DropLast(words))
       IN IF words # <<>>
          THEN [st EXCEPT !.sentence =
                  IF joined # <<>> THEN joined \o <<" ">> ELSE joined]
          ELSE [st EXCEPT !.sentence = <<>>]

\* AppState._delete_word()
DeleteWord(st) ==
  IF st.prefix # <<>> THEN [st EXCEPT !.prefix = <<>>]
  ELSE LET words == SplitSpace(Strip(st.sentence))
           joined == JoinSpace(DropLast(words))
       IN IF words # <<>> /\ words # << <<>> >>
          THEN [st EXCEPT !.sentence =
                  IF joined # <<>> THEN joined \o <<" ">> ELSE joined]
          ELSE [st EXCEPT !.sentence = <<>>]

\* _accept_top_suggestion that leaves the typed prefix in place
AcceptTopSuggestionKeepsPrefix(st) ==
  IF st.suggestions # <<>>
  THEN [st EXCEPT !.sentence = @ \o st.suggestions[1] \o <<" ">>,
                  !.sugg_index = 0]
  ELSE st

\* AppState._accept_top_suggestion()
AcceptTopSuggestion(st) ==
  IF st.suggestions # <<>>
  THEN [st EXCEPT !.sentence = @ \o st.suggestions[1] \o <<" ">>,
                  !.prefix = <<>>, !.sugg_index = 0]
  ELSE st

\* _send_message clearing the sentence before it looks at the message
SendMessageAlwaysClears(st, t) ==
  LET s1 == IF st.prefix # <<>>
            THEN [st EXCEPT !.sentence = @ \o st.prefix \o <<" ">>,
                            !.prefix = <<>>]
            ELSE st
      message == Strip(s1.sentence)
  IN IF message = <<>> THEN [s1 EXCEPT !.sentence = <<>>]
     ELSE IF ~LogDefined THEN [s1 EXCEPT !.raised = "NameError"]
     ELSE Flash([Speak(s1, message) EXCEPT !.sentence = <<>>, !.sugg_index = 0],
                ".", t)

\* AppState._send_message(); reading the unbound name log raises NameError
SendMessage(st, t) ==
  LET s1 == IF st.prefix # <<>>
            THEN [st EXCEPT !.sentence = @ \o st.prefix \o <<" ">>,
                            !.prefix = <<>>]
            ELSE st
      message == Strip(s1.sentence)
  IN IF message = <<>> THEN s1
     ELSE IF ~LogDefined THEN [s1 EXCEPT !.raised = "NameError"]
     ELSE Flash([Speak(s1, message) EXCEPT !.sentence = <<>>, !.sugg_index = 0],
                ".", t)

\* _select_current that leaves the highlighted slot where it is
SelectCurrentKeepsSlot(st, t) ==
  IF st.sugg_index = 0
  THEN LET char == ALPHABET[(st.cursor_index % Len(ALPHABET)) + 1]
       IN CASE char = "_" -> [st EXCEPT !.sentence = @ \o st.prefix \o <<" ">>,
                                        !.prefix = <<>>]
            [] char = "<" -> Backspace(st)
            [] char = "[" -> DeleteWord(st)
            [] char = "]" -> [st EXCEPT !.sentence = <<>>, !.prefix = <<>>]
            [] char = "." -> SendMessage(st, t)
            [] OTHER -> [st EXCEPT !.prefix = Append(@, char)]
  ELSE LET idx == st.sugg_index - 1
       IN IF 0 <= idx /\ idx < Len(st.suggestions)
          THEN [st EXCEPT !.sentence = @ \o st.suggestions[idx + 1] \o <<" ">>,
                          !.prefix = <<>>]
          ELSE st

\* AppState._select_current()
SelectCurrent(st, t) ==
  IF st.sugg_index = 0
  THEN LET char == ALPHABET[(st.cursor_index % Len(ALPHABET)) + 1]
       IN CASE char = "_" -> [st EXCEPT !.sentence = @ \o st.prefix \o <<" ">>,
                                        !.prefix = <<>>]
            [] char = "<" -> Backspace(st)
            [] char = "[" -> DeleteWord(st)
            [] char = "]" -> [st EXCEPT !.sentence = <<>>, !.prefix = <<>>]
            [] char = "." -> SendMessage(st, t)
            [] OTHER -> [st EXCEPT !.prefix = Append(@, char)]
  ELSE LET idx == st.sugg_index - 1
           s1 == IF 0 <= idx /\ idx < Len(st.suggestions)
                 THEN [st EXCEPT !.sentence = @ \o st.suggestions[idx + 1] \o <<" ">>,
                                 !.prefix = <<>>]
                 ELSE st
       IN [s1 EXCEPT !.sugg_index = 0]

\* _handle_center that commits in either mode
HandleCenterAnyMode(st, t) ==
  IF t < st.center_cooldown_until THEN st
  ELSE IF DwellPercent([st EXCEPT !.mode = MODE_WRITE], t) >= ONE
       THEN LET s1 == [SelectCurrent(st, t) EXCEPT !.act = "center"]
            IN IF s1.raised # "none" THEN s1
               ELSE [ResetDwell(s1, t) EXCEPT
                       !.center_cooldown_until = t + CENTER_COOLDOWN_SEC]
       ELSE st

\* _handle_center that does not arm the cooldown when it commits
HandleCenterNoRearm(st, t) ==
  IF t < st.center_cooldown_until THEN st
  ELSE IF st.mode = MODE_WRITE /\ DwellPercent(st, t) >= ONE
       THEN LET s1 == [SelectCurrent(st, t) EXCEPT !.act = "center"]
            IN IF s1.raised # "none" THEN s1 ELSE ResetDwell(s1, t)
       ELSE st

\* AppState._handle_center(now)
HandleCenter(st, t) ==
  IF t < st.center_cooldown_until THEN st
  ELSE IF st.mode = MODE_WRITE /\ DwellPercent(st, t) >= ONE
       THEN LET s1 == [SelectCurrent(st, t) EXCEPT !.act = "center"]
            IN IF s1.raised # "none" THEN s1
               ELSE [ResetDwell(s1, t) EXCEPT
                       !.center_cooldown_until = t + CENTER_COOLDOWN_SEC]
       ELSE st

\* _handle_cardinal: a cursor step that leaves the ring unwrapped
CursorStepNoWrap(i, delta) == i + delta

\* _handle_cardinal: (cursor_index + delta) % len(ALPHABET), Python's %
CursorStep(i, delta) == (i + delta) % Len(ALPHABET)

\* _handle_cardinal: a scroll step that ignores the transcript's length
ScrollUpUnclamped(st) == st.transcript_scroll + 1

\* _handle_cardinal: min(transcript_scroll + 1, max(0, len(transcript) - 1))
ScrollUp(st) == Min(st.transcript_scroll + 1, Max(0, Len(st.transcript) - 1))

\* _handle_cardinal: a cooldown test that never holds a step back
ScrollNeverCooling(st, t) == FALSE

\* _handle_cardinal: now - _last_scroll_time < SCROLL_COOLDOWN_SEC
ScrollCooling(st, t) == t - st.last_scroll_time < SCROLL_COOLDOWN_SEC

\* AppState._handle_cardinal(d, now)
HandleCardinal(st, d, t) ==
  IF ScrollCooling(st, t) THEN st
  ELSE LET s1 == [st EXCEPT !.last_scroll_time = t, !.act = "cardinal"]
       IN IF s1.mode = MODE_WRITE
          THEN CASE d = DIR_E ->
                      [s1 EXCEPT !.cursor_index = CursorStep(@, 1)]
                 [] d = DIR_W ->
                      [s1 EXCEPT !.cursor_index = CursorStep(@, -1)]
                 [] d = DIR_S ->
                      [s1 EXCEPT !.sugg_index = Min(@ + 1, Len(s1.suggestions))]
                 [] d = DIR_N ->
                      [s1 EXCEPT !.sugg_index = Max(@ - 1, 0)]
                 [] OTHER -> s1
          ELSE IF s1.mode = MODE_CAPTION
          THEN CASE d = DIR_N ->
                      [s1 EXCEPT !.transcript_scroll = ScrollUp(s1)]
                 [] d = DIR_S ->
                      [s1 EXCEPT !.transcript_scroll = Max(@ - 1, 0)]
                 [] OTHER -> s1
          ELSE s1

\* _handle_diagonal: an NW that only ever enters WRITE
ToggleModeOneWay(m) == MODE_WRITE

\* _handle_diagonal: NW toggles the mode
ToggleMode(m) == IF m = MODE_WRITE THEN MODE_CAPTION ELSE MODE_WRITE

\* _handle_diagonal that does not wait for the dwell
HandleDiagonalNoDwell(st, d, t) ==
  IF st.diagonal_fired # NotFired THEN st
  ELSE LET s1 == Flash(ResetDwell([st EXCEPT !.diagonal_fired = d,
                                             !.act = "diagonal"], t), d, t)
           word == GetLastWord(s1.transcript)
       IN IF d = DIR_NW
          THEN [s1 EXCEPT !.mode = ToggleMode(@)]
          ELSE IF s1.mode = MODE_WRITE
          THEN CASE d = DIR_NE -> AcceptTopSuggestion(s1)
                 [] d = DIR_SE -> Backspace(s1)
                 [] d = DIR_SW -> DeleteWord(s1)
                 [] OTHER -> s1
          ELSE CASE d = DIR_NE ->
                      IF word # <<>>
                      THEN [s1 EXCEPT !.prefix = word, !.mode = MODE_WRITE]
                      ELSE s1
                 [] d = DIR_SE -> TogglePause(s1)
                 [] d = DIR_SW -> [CaptionerClear(s1) EXCEPT !.transcript_scroll = 0]
                 [] OTHER -> s1

\* AppState._handle_diagonal(d)
HandleDiagonal(st, d, t) ==
  IF st.diagonal_fired # NotFired THEN st
  ELSE IF DwellPercent(st, t) < ONE THEN st
  ELSE LET s1 == Flash(ResetDwell([st EXCEPT !.diagonal_fired = d,
                                             !.act = "diagonal"], t), d, t)
           word == GetLastWord(s1.transcript)
       IN IF d = DIR_NW
          THEN [s1 EXCEPT !.mode = ToggleMode(@)]
          ELSE IF s1.mode = MODE_WRITE
          THEN CASE d = DIR_NE -> AcceptTopSuggestion(s1)
                 [] d = DIR_SE -> Backspace(s1)
                 [] d = DIR_SW -> DeleteWord(s1)
                 [] OTHER -> s1
          ELSE IF s1.mode = MODE_CAPTION
          THEN CASE d = DIR_NE ->
                      IF word # <<>>
                      THEN [s1 EXCEPT !.prefix = word, !.mode = MODE_WRITE]
                      ELSE s1
                 [] d = DIR_SE -> TogglePause(s1)
                 [] d = DIR_SW -> [CaptionerClear(s1) EXCEPT !.transcript_scroll = 0]
                 [] OTHER -> s1
          ELSE s1

\* InputProcessor.update that never restarts the dwell timer
InputUpdateNoRestart(st, d, t) ==
  [st EXCEPT !.direction = d, !.current_dir = d,
             !.dwell_seconds = t - st.dwell_start]

\* InputProcessor.update(roll, pitch), d the snapped direction
InputUpdate(st, d, t) ==
  IF d # st.current_dir
  THEN [st EXCEPT !.direction = d, !.current_dir = d,
                  !.dwell_start = t, !.dwell_seconds = 0]
  ELSE [st EXCEPT !.direction = d, !.dwell_seconds = t - st.dwell_start]

\* update() that never clears the flash
ClearFlashNever(st, t) == st

\* update(): clear flash
ClearFlash(st, t) ==
  IF t > st.flash_end THEN [st EXCEPT !.flash_direction = None] ELSE st

\* update(): a return to center that arms the cooldown for no time at all
TrackCenterZeroCooldown(st, t) ==
  IF st.direction # DIR_CENTER THEN [st EXCEPT !.was_off_center = TRUE]
  ELSE IF st.was_off_center
       THEN ResetDwell([st EXCEPT !.was_off_center = FALSE,
                                  !.center_cooldown_until = t], t)
       ELSE st

\* update(): a return to center that resets the dwell and arms no cooldown
TrackCenterNoCooldown(st, t) ==
  IF st.direction # DIR_CENTER THEN [st EXCEPT !.was_off_center = TRUE]
  ELSE IF st.was_off_center
       THEN ResetDwell([st EXCEPT !.was_off_center = FALSE], t)
       ELSE st

\* update(): track center cooldown
TrackCenterCooldown(st, t) ==
  IF st.direction # DIR_CENTER THEN [st EXCEPT !.was_off_center = TRUE]
  ELSE IF st.was_off_center
       THEN ResetDwell([st EXCEPT !.was_off_center = FALSE,
                                  !.center_cooldown_until = t + CENTER_COOLDOWN_SEC],
                       t)
       ELSE st

\* update(): a lock reset that does not look at the direction
ClearLockAlways(st) == [st EXCEPT !.diagonal_fired = NotFired]

\* update(): a lock that is never reset
ClearLockNever(st) == st

\* update(): reset diagonal lock when direction changes
ClearLock(st) ==
  IF st.direction # st.diagonal_fired
  THEN [st EXCEPT !.diagonal_fired = NotFired] ELSE st

\* update(): update suggestions for write mode
RefreshSuggestions(st) ==
  IF st.mode = MODE_WRITE
  THEN LET g == GetSuggestions(st.prefix, st.sentence, MAX_RESULTS)
       IN [st EXCEPT !.suggestions = g.cands, !.ngram_level = g.level,
                     !.ngram_context = g.ctx]
  ELSE st

\* update(): dispatch
Dispatch(st, t) ==
  IF st.direction = DIR_CENTER THEN HandleCenter(st, t)
  ELSE IF st.direction \in CARDINALS THEN HandleCardinal(st, st.direction, t)
  ELSE IF st.direction \in DIAGONALS THEN HandleDiagonal(st, st.direction, t)
  ELSE st

\* AppState.update(roll, pitch) at clock t
AppUpdate(st, roll, pitch, t) ==
  Dispatch(
    RefreshSuggestions(
      ClearLock(
        TrackCenterCooldown(
          ClearFlash(InputUpdate(st, SnapDirection(roll, pitch), t), t), t))), t)

\* the fields update() reads and writes, as one record; act is what it did
Cur ==
  [direction |-> direction, current_dir |-> current_dir,
   dwell_start |-> dwell_start, dwell_seconds |-> dwell_seconds,
   mode |-> mode, sentence |-> sentence, prefix |-> prefix,
   cursor_index |-> cursor_index, sugg_index |-> sugg_index,
   suggestions |-> suggestions, ngram_level |-> ngram_level,
   ngram_context |-> ngram_context, transcript_scroll |-> transcript_scroll,
   last_scroll_time |-> last_scroll_time, diagonal_fired |-> diagonal_fired,
   flash_direction |-> flash_direction, flash_end |-> flash_end,
   center_cooldown_until |-> center_cooldown_until,
   was_off_center |-> was_off_center,
   transcript |-> transcript, partial |-> partial, paused |-> paused,
   tts_q |-> tts_q, speak_calls |-> speak_calls,
   raised |-> raised, act |-> "none"]

\* ------------------------------------------------------------------ inputs

\* the (roll, pitch) samples the sensor delivers: the centre, one inside the
\* deadzone, one per sector, and one in the dead band between E and NE
AT_CENTER == <<0, 0>>
AT_N == <<0, 100>>
AT_S == <<0, -100>>
AT_E == <<-100, 0>>
AT_W == <<100, 0>>
AT_NE == <<-70, 70>>
AT_NW == <<70, 70>>
AT_SE == <<-70, -70>>
AT_SW == <<70, -70>>
Samples ==
  { AT_CENTER, <<5, 5>>, AT_N, AT_S, AT_E, AT_W, AT_NE, AT_NW, AT_SE, AT_SW,
    <<-100, 40>> }

\* the clock advance between two update() calls, tenths of a second
TickSteps == {10}

\* the texts the recognizer delivers
RecognizedTexts ==
  { <<"h","e","l","l","o"," ","w","o","r","l","d">> }

\* ----------------------------------------------------------------- actions

\* AppState.__init__ (with InputProcessor, Captioner and TTSQueue)
InitApp ==
  /\ now = ConstructTime
  /\ direction = DIR_CENTER
  /\ current_dir = DIR_CENTER
  /\ dwell_start = ConstructTime
  /\ dwell_seconds = 0
  /\ mode = MODE_CAPTION
  /\ sentence = <<>>
  /\ prefix = <<>>
  /\ cursor_index = 0
  /\ sugg_index = 0
  /\ suggestions = <<>>
  /\ ngram_level = NoLevel
  /\ ngram_context = <<>>
  /\ transcript_scroll = 0
  /\ last_scroll_time = 0
  /\ diagonal_fired = NotFired
  /\ flash_direction = None
  /\ flash_end = 0
  /\ center_cooldown_until = 0
  /\ was_off_center = FALSE
  /\ transcript = <<>>
  /\ partial = <<>>
  /\ paused = FALSE
  /\ tts_q = <<>>
  /\ speak_calls = <<>>
  /\ raised = "none"
  /\ last = [act |-> "init", dir |-> DIR_CENTER, mode |-> MODE_CAPTION, sel |-> ""]
  /\ run_start = ConstructTime
  /\ run_fires = 0

\* PredictiveText.__init__ with a unigram file and no other data file
InitTables ==
  /\ unigrams = LoadedUnigrams
  /\ bigrams = EmptyTable
  /\ trigrams = EmptyTable
  /\ quadrigrams = EmptyTable
  /\ pentagrams = EmptyTable

NoQuery ==
  /\ query = [current_input |-> <<>>, context |-> <<>>, max_results |-> 0]
  /\ result = [cands |-> <<>>, level |-> NoLevel, ctx |-> <<>>]

Init ==
  /\ InitApp
  /\ InitTables
  /\ NoQuery
  /\ script = 0
  /\ pos = 0
  /\ phase_start = ConstructTime
  /\ effect_time = 0

\* one tick of HeadMouseGUI._loop that has a sample: the clock has advanced by
\* dt since the last one; an exception out of update() ends the rescheduling
Update(roll, pitch, dt, horizon) ==
  /\ raised = "none"
  /\ now + dt <= ConstructTime + horizon
  /\ \E t \in {now + dt} : \E r \in {AppUpdate(Cur, roll, pitch, t)} :
        /\ now' = t
        /\ direction' = r.direction
        /\ current_dir' = r.current_dir
        /\ dwell_start' = r.dwell_start
        /\ dwell_seconds' = r.dwell_seconds
        /\ mode' = r.mode
        /\ sentence' = r.sentence
        /\ prefix' = r.prefix
        /\ cursor_index' = r.cursor_index
        /\ sugg_index' = r.sugg_index
        /\ suggestions' = r.suggestions
        /\ ngram_level' = r.ngram_level
        /\ ngram_context' = r.ngram_context
        /\ transcript_scroll' = r.transcript_scroll
        /\ last_scroll_time' = r.last_scroll_time
        /\ diagonal_fired' = r.diagonal_fired
        /\ flash_direction' = r.flash_direction
        /\ flash_end' = r.flash_end
        /\ center_cooldown_until' = r.center_cooldown_until
        /\ was_off_center' = r.was_off_center
        /\ transcript' = r.transcript
        /\ partial' = r.partial
        /\ paused' = r.paused
        /\ tts_q' = r.tts_q
        /\ speak_calls' = r.speak_calls
        /\ raised' = r.raised
        /\ last' = [act |-> r.act, dir |-> r.direction, mode |-> mode,
                    sel |-> IF r.act # "center" THEN ""
                            ELSE IF sugg_index = 0
                                 THEN ALPHABET[(cursor_index % Len(ALPHABET)) + 1]
                                 ELSE "slot"]
        /\ run_start' = IF r.direction # direction THEN t ELSE run_start
        /\ run_fires' = (IF r.direction # direction THEN 0 ELSE run_fires)
                        + (IF r.act = "diagonal" THEN 1 ELSE 0)
  /\ UNCHANGED <<table_vars, query_vars>>

\* Captioner._recognition_loop: a final result with a non-empty text
CaptionerAppend(text) ==
  /\ Len(transcript) < MaxLines
  /\ Upper(text) # <<>>
  /\ transcript' = Append(transcript, Upper(text))
  /\ partial' = <<>>
  /\ UNCHANGED <<clock_vars, table_vars, input_vars, app_vars, paused, tts_vars,
                 raised, hist_vars, script_vars, query_vars>>

\* a tick of the unscripted user: any sample, any step
Tick ==
  /\ \E s \in Samples, dt \in TickSteps : Update(s[1], s[2], dt, MaxTime)
  /\ UNCHANGED script_vars

Recognize == \E text \in RecognizedTexts : CaptionerAppend(text)

Next == Tick \/ Recognize

Spec == Init /\ [][Next]_vars

\* ------------------------------------------------------- the scripted user

\* one step of a script: tilt to sample and hold it for dur after its first tick
Hold(sample, dur) == [s |-> sample, dur |-> dur]

\* NW into WRITE, then CENTER, one E tick, CENTER, SE: each CENTER held for
\* the center-return cooldown plus the dwell threshold
TypeHI ==
  << Hold(AT_NW, DWELL_DIAGONAL_SEC),
     Hold(AT_CENTER, CENTER_COOLDOWN_SEC + DWELL_CENTER_SEC),
     Hold(AT_E, 0),
     Hold(AT_CENTER, CENTER_COOLDOWN_SEC + DWELL_CENTER_SEC),
     Hold(AT_SE, DWELL_DIAGONAL_SEC) >>

\* the same, each CENTER held for the dwell threshold only
TypeHIShort ==
  << Hold(AT_NW, DWELL_DIAGONAL_SEC),
     Hold(AT_CENTER, DWELL_CENTER_SEC),
     Hold(AT_E, 0),
     Hold(AT_CENTER, DWELL_CENTER_SEC),
     Hold(AT_SE, DWELL_DIAGONAL_SEC) >>

\* NW into WRITE, S down the suggestion slots, NW back to CAPTION, NE to
\* bridge the last transcript word, one CENTER tick
SlotThenBridge ==
  << Hold(AT_NW, DWELL_DIAGONAL_SEC),
     Hold(AT_S, 2 * SCROLL_COOLDOWN_SEC),
     Hold(AT_NW, DWELL_DIAGONAL_SEC),
     Hold(AT_NE, DWELL_DIAGONAL_SEC),
     Hold(AT_CENTER, 0) >>

\* NW into WRITE, one W tick onto the last glyph, CENTER to commit it
SendEmpty ==
  << Hold(AT_NW, DWELL_DIAGONAL_SEC),
     Hold(AT_W, 0),
     Hold(AT_CENTER, CENTER_COOLDOWN_SEC + DWELL_CENTER_SEC) >>

\* NW into WRITE, E onto the glyphs after the letters, CENTER to commit, W
\* back round the ring, CENTER to commit
SendBlank ==
  << Hold(AT_NW, DWELL_DIAGONAL_SEC),
     Hold(AT_E, SCROLL_COOLDOWN_SEC),
     Hold(AT_CENTER, CENTER_COOLDOWN_SEC + DWELL_CENTER_SEC),
     Hold(AT_W, 2 * SCROLL_COOLDOWN_SEC),
     Hold(AT_CENTER, CENTER_COOLDOWN_SEC + DWELL_CENTER_SEC) >>

\* a sample in the dead band between E and NE
IN_DEAD_BAND == <<-100, 40>>

\* NW into WRITE, then out of NW into the dead band and held there
TypeInDeadBand ==
  << Hold(AT_NW, DWELL_DIAGONAL_SEC),
     Hold(IN_DEAD_BAND, CENTER_COOLDOWN_SEC + DWELL_CENTER_SEC) >>

\* NW into WRITE, S down the suggestion slots, CENTER to commit the slot
CommitSlot ==
  << Hold(AT_NW, DWELL_DIAGONAL_SEC),
     Hold(AT_S, 2 * SCROLL_COOLDOWN_SEC),
     Hold(AT_CENTER, CENTER_COOLDOWN_SEC + DWELL_CENTER_SEC) >>

\* NW into WRITE, S down the suggestion slots, NW back to CAPTION, NE to
\* bridge the last transcript word, CENTER to commit the slot
BridgeThenCommit ==
  << Hold(AT_NW, DWELL_DIAGONAL_SEC),
     Hold(AT_S, 2 * SCROLL_COOLDOWN_SEC),
     Hold(AT_NW, DWELL_DIAGONAL_SEC),
     Hold(AT_NE, DWELL_DIAGONAL_SEC),
     Hold(AT_CENTER, CENTER_COOLDOWN_SEC + DWELL_CENTER_SEC) >>

Scripts ==
  << TypeHI, TypeHIShort, SlotThenBridge, SendEmpty, SendBlank,
     TypeInDeadBand, CommitSlot, BridgeThenCommit >>

ScriptId(sc) == CHOOSE i \in 1..Len(Scripts) : Scripts[i] = sc

\* the clock advance between two ticks of the scripted user
ScriptSteps == {5, 10}

\* no script runs longer than this
ScriptHorizon == 10 * MaxTime

\* how long the current step has been held
Held == now - phase_start

\* another tick inside the current step of the script
ScriptHold ==
  /\ script > 0
  /\ pos > 0
  /\ \E dt \in ScriptSteps :
       /\ now + dt <= phase_start + Scripts[script][pos].dur
       /\ Update(Scripts[script][pos].s[1], Scripts[script][pos].s[2], dt,
                 ScriptHorizon)
  /\ UNCHANGED script_vars

\* the current step is over: the first tick of the next one
ScriptAdvance ==
  /\ script > 0
  /\ pos < Len(Scripts[script])
  /\ pos > 0 => now = phase_start + Scripts[script][pos].dur
  /\ \E dt \in ScriptSteps :
       /\ Update(Scripts[script][pos + 1].s[1], Scripts[script][pos + 1].s[2],
                 dt, ScriptHorizon)
       /\ phase_start' = now + dt
  /\ pos' = pos + 1
  /\ script' = script
  /\ effect_time' = effect_time

InitScript ==
  /\ InitApp
  /\ InitTables
  /\ NoQuery
  /\ script \in 1..Len(Scripts)
  /\ pos = 0
  /\ phase_start = ConstructTime
  /\ effect_time = 0

NextScript == ScriptHold \/ ScriptAdvance \/ Recognize

SpecScript == InitScript /\ [][NextScript]_vars

\* ----------------------------------------------------- the predictor alone

THE == <<"T", "H", "E">>
TO == <<"T", "O">>
AT == <<"A", "T">>
GO == <<"G", "O">>
I == <<"I">>

\* the last four, three and two words of the context I GO I GO
Key4 == <<I, GO, I, GO>>
Key3 == <<GO, I, GO>>
Key2 == <<I, GO>>

\* contents of the five tables as the loaders can leave them: each table is
\* empty (no file) or holds candidate lists in file order
UnigramTables == { <<>>, <<THE, TO, AT>>, <<TO, THE, TO>> }
BigramTables == { EmptyTable, [k \in {GO} |-> <<TO, AT>>] }
TrigramTables == { EmptyTable, [k \in {Key2} |-> <<THE, THE>>] }
QuadrigramTables == { EmptyTable, [k \in {Key3} |-> <<AT, THE>>] }
PentagramTables ==
  { EmptyTable, [k \in {Key4} |-> <<TO>>], [k \in {Key4} |-> <<THE, TO, AT>>] }

\* current_input arguments: empty, blank, lower case, upper case, padded,
\* unmatched
PrefixInputs ==
  { <<>>, <<" ">>, <<"t">>, <<"T">>, <<"T", "H">>, <<" ", "a">>, <<"X">> }

\* context arguments: empty, one to four words, lower case and padded
ContextInputs ==
  { <<>>, <<"g", "o">>, JoinSpace(Key2), JoinSpace(Key3), JoinSpace(Key4),
    <<" ">> \o <<"i", " ", "g", "o", " ", "i", " ", "g", "o">> \o <<" ">>,
    JoinSpace(<<GO, GO, GO, GO>>) }

MaxResultsInputs == 0..MAX_RESULTS

InitPredict ==
  /\ InitApp
  /\ unigrams \in UnigramTables
  /\ bigrams \in BigramTables
  /\ trigrams \in TrigramTables
  /\ quadrigrams \in QuadrigramTables
  /\ pentagrams \in PentagramTables
  /\ NoQuery
  /\ script = 0
  /\ pos = 0
  /\ phase_start = ConstructTime
  /\ effect_time = 0

\* one call of get_suggestions on the loaded tables; the tables never change
\* and the call leaves no trace, so one call per behaviour covers them all
Query ==
  /\ NoQuery
  /\ \E ci \in PrefixInputs, cx \in ContextInputs, m \in MaxResultsInputs :
       /\ query' = [current_input |-> ci, context |-> cx, max_results |-> m]
       /\ result' = GetSuggestions(ci, cx, m)
  /\ UNCHANGED <<clock_vars, table_vars, input_vars, app_vars, cap_vars,
                 tts_vars, raised, hist_vars, script_vars>>

NextPredict == Query

SpecPredict == InitPredict /\ [][NextPredict]_vars

\* ---------------------------------------------------------- _merge alone

CAT == <<"C", "A", "T">>
DOG == <<"D", "O", "G">>

\* longest list handed to _merge
MaxMergeLen == 2

MergeWords == {CAT, DOG, THE}

\* every list of at most MaxMergeLen words, repeats included
MergeLists == UNION { [1..k -> MergeWords] : k \in 0..MaxMergeLen }

\* the arguments of one call of _merge, not yet made
InitMerge ==
  /\ InitApp
  /\ InitTables
  /\ \E p \in MergeLists, sec \in MergeLists :
       query = [primary |-> p, secondary |-> sec]
  /\ result = [done |-> FALSE, value |-> <<>>]
  /\ script = 0
  /\ pos = 0
  /\ phase_start = ConstructTime
  /\ effect_time = 0

\* the call of _merge(primary, secondary)
MergeCall ==
  /\ ~result.done
  /\ result' = [done |-> TRUE, value |-> Merge(query.primary, query.secondary)]
  /\ UNCHANGED <<clock_vars, table_vars, input_vars, app_vars, cap_vars,
                 tts_vars, raised, hist_vars, script_vars, query>>

NextMerge == MergeCall

SpecMerge == InitMerge /\ [][NextMerge]_vars

\* ------------------------------------------------- _snap_direction alone

\* the samples run over the square -GridMax..GridMax in both coordinates
GridMax == 16

\* a sample about 20 degrees off the E centre, in the dead band
OFF_E_20 == <<-94, 34>>

\* the samples handed to _snap_direction: a grid across the deadzone and the
\* ring around it, and the larger samples of the controller
ClassifySamples ==
  ((-GridMax)..GridMax) \X ((-GridMax)..GridMax) \cup Samples \cup {OFF_E_20}

\* the arguments of one call of _snap_direction, not yet made
InitClassify ==
  /\ InitApp
  /\ InitTables
  /\ \E sm \in ClassifySamples : query = [roll |-> sm[1], pitch |-> sm[2]]
  /\ result = [done |-> FALSE, value |-> DIR_CENTER]
  /\ script = 0
  /\ pos = 0
  /\ phase_start = ConstructTime
  /\ effect_time = 0

\* the call of _snap_direction(roll, pitch)
Classify ==
  /\ ~result.done
  /\ result' = [done |-> TRUE, value |-> SnapDirection(query.roll, query.pitch)]
  /\ UNCHANGED <<clock_vars, table_vars, input_vars, app_vars, cap_vars,
                 tts_vars, raised, hist_vars, script_vars, query>>

NextClassify == Classify

SpecClassify == InitClassify /\ [][NextClassify]_vars

\* ------------------------------------------------- InputProcessor alone

\* the clock advance between two calls of InputProcessor.update(): the clock
\* may stand still between two reads
InputSteps == {0, 5, 10}

\* one call of InputProcessor.update(roll, pitch) and nothing else
InputTick ==
  \E sm \in Samples, dt \in InputSteps :
    /\ now + dt <= ConstructTime + MaxTime
    /\ \E t \in {now + dt} :
       \E r \in {InputUpdate(Cur, SnapDirection(sm[1], sm[2]), t)} :
         /\ now' = t
         /\ direction' = r.direction
         /\ current_dir' = r.current_dir
         /\ dwell_start' = r.dwell_start
         /\ dwell_seconds' = r.dwell_seconds
         /\ run_start' = IF r.direction # direction THEN t ELSE run_start
    /\ UNCHANGED <<table_vars, app_vars, cap_vars, tts_vars, raised, last,
                   run_fires, script_vars, query_vars>>

NextInput == InputTick

SpecInput == Init /\ [][NextInput]_vars

\* ------------------------------------------------- the user who only steps

\* the clock advance between two ticks of the stepping user: less than the
\* cardinal cooldown
CardinalSteps == {2, 3}

\* how long the stepping user goes on stepping
CardinalSpan == 12

CardinalSamples == {AT_N, AT_S, AT_E, AT_W}

\* before the first step: NW held, in 1 s ticks, until it toggles to WRITE
EnterWrite ==
  /\ pos = 0
  /\ mode = MODE_CAPTION
  /\ Update(AT_NW[1], AT_NW[2], 10, MaxTime)
  /\ UNCHANGED script_vars

\* the recognizer delivers its lines before the first step
RecognizeEarly == pos = 0 /\ Recognize

\* one tick on a cardinal; pos = 1 and phase_start say since when
CardinalTick ==
  /\ pos = 0 => (direction = DIR_CENTER \/ mode = MODE_WRITE)
  /\ \E sm \in CardinalSamples, dt \in CardinalSteps :
       /\ now + dt <= (IF pos = 0 THEN now ELSE phase_start) + CardinalSpan
       /\ Update(sm[1], sm[2], dt, ScriptHorizon)
  /\ pos' = 1
  /\ phase_start' = IF pos = 0 THEN now ELSE phase_start
  /\ script' = script
  /\ effect_time' =
       IF \/ cursor_index' # cursor_index
          \/ sugg_index' # sugg_index
          \/ transcript_scroll' # transcript_scroll
       THEN now' ELSE effect_time

NextCardinal == EnterWrite \/ RecognizeEarly \/ CardinalTick

SpecCardinal == Init /\ [][NextCardinal]_vars

\* ------------------------------------------------- the user who edits

\* edit buffers typed earlier: sentences with one and two words, single and
\* double spaces ('_' committed on an empty prefix), a leading space, no
\* trailing space (after a backspace), blank and empty
EditSentences ==
  { <<>>, <<" ">>, <<"H", "I", " ">>, <<"H", "I">>, <<"H", "I", " ", " ">>,
    <<"H", " ", "I", " ">>, <<"H", " ", " ", "I", " ">>,
    <<" ", "H", "I", " ">> }

EditPrefixes == { <<>>, <<"H">>, <<"H", "I">> }

\* the index of a glyph in the alphabet ring
IndexOf(glyph) == (CHOOSE i \in 1..Len(ALPHABET) : ALPHABET[i] = glyph) - 1

EditCursors == { IndexOf("<"), IndexOf("[") }

EditSamples == {AT_CENTER, AT_SE, AT_SW}

\* the tick on which NW has just fired and toggled CAPTION to WRITE, the edit
\* buffer and cursor being what an earlier stay in WRITE left (the toggles
\* leave them alone) and the suggestions what its last tick stored
InitEdit ==
  /\ now = ConstructTime + DWELL_DIAGONAL_SEC + 10
  /\ direction = DIR_NW
  /\ current_dir = DIR_NW
  /\ dwell_start = now
  /\ dwell_seconds = 0
  /\ mode = MODE_WRITE
  /\ sentence \in EditSentences
  /\ prefix \in EditPrefixes
  /\ cursor_index \in EditCursors
  /\ sugg_index = 0
  /\ InitTables
  /\ suggestions = GetSuggestions(prefix, sentence, MAX_RESULTS).cands
  /\ ngram_level = GetSuggestions(prefix, sentence, MAX_RESULTS).level
  /\ ngram_context = GetSuggestions(prefix, sentence, MAX_RESULTS).ctx
  /\ transcript_scroll = 0
  /\ last_scroll_time = 0
  /\ diagonal_fired = DIR_NW
  /\ flash_direction = DIR_NW
  /\ flash_end = now + FLASH_SEC
  /\ center_cooldown_until = 0
  /\ was_off_center = TRUE
  /\ transcript = <<>>
  /\ partial = <<>>
  /\ paused = FALSE
  /\ tts_q = <<>>
  /\ speak_calls = <<>>
  /\ raised = "none"
  /\ last = [act |-> "diagonal", dir |-> DIR_NW, mode |-> MODE_CAPTION,
             sel |-> ""]
  /\ run_start = now - DWELL_DIAGONAL_SEC
  /\ run_fires = 1
  /\ NoQuery
  /\ script = 0
  /\ pos = 0
  /\ phase_start = ConstructTime
  /\ effect_time = 0

\* a tick of the editing user, 1 s after the last
EditTick ==
  /\ \E sm \in EditSamples : Update(sm[1], sm[2], 10, MaxTime)
  /\ UNCHANGED script_vars

NextEdit == EditTick

SpecEdit == InitEdit /\ [][NextEdit]_vars

\* ------------------------------------- the user who accepts suggestions

\* the unigram list as _load_unigrams can leave it: loaded from the data
\* file, or empty when the file holds a header and no usable row
AcceptUnigrams == { LoadedUnigrams, <<>> }

\* edit buffers typed earlier: nothing, a word, a prefix with matching
\* unigrams and one with none
AcceptSentences == { <<>>, <<"H", "I", " ">> }
AcceptPrefixes == { <<>>, <<"H">>, <<"X">> }

AcceptSamples == {AT_CENTER, AT_NE, AT_S}

\* the tick on which NW has just fired and toggled CAPTION to WRITE, the edit
\* buffer, the suggestions and the highlighted slot being what an earlier
\* stay in WRITE left
InitAccept ==
  /\ now = ConstructTime + DWELL_DIAGONAL_SEC + 10
  /\ direction = DIR_NW
  /\ current_dir = DIR_NW
  /\ dwell_start = now
  /\ dwell_seconds = 0
  /\ mode = MODE_WRITE
  /\ sentence \in AcceptSentences
  /\ prefix \in AcceptPrefixes
  /\ cursor_index = 0
  /\ unigrams \in AcceptUnigrams
  /\ bigrams = EmptyTable
  /\ trigrams = EmptyTable
  /\ quadrigrams = EmptyTable
  /\ pentagrams = EmptyTable
  /\ suggestions = GetSuggestions(prefix, sentence, MAX_RESULTS).cands
  /\ ngram_level = GetSuggestions(prefix, sentence, MAX_RESULTS).level
  /\ ngram_context = GetSuggestions(prefix, sentence, MAX_RESULTS).ctx
  /\ sugg_index \in 0..Len(suggestions)
  /\ transcript_scroll = 0
  /\ last_scroll_time = 0
  /\ diagonal_fired = DIR_NW
  /\ flash_direction = DIR_NW
  /\ flash_end = now + FLASH_SEC
  /\ center_cooldown_until = 0
  /\ was_off_center = TRUE
  /\ transcript = <<>>
  /\ partial = <<>>
  /\ paused = FALSE
  /\ tts_q = <<>>
  /\ speak_calls = <<>>
  /\ raised = "none"
  /\ last = [act |-> "diagonal", dir |-> DIR_NW, mode |-> MODE_CAPTION,
             sel |-> ""]
  /\ run_start = now - DWELL_DIAGONAL_SEC
  /\ run_fires = 1
  /\ NoQuery
  /\ script = 0
  /\ pos = 0
  /\ phase_start = ConstructTime
  /\ effect_time = 0

\* a tick of the accepting user, 1 s after the last
AcceptTick ==
  /\ \E sm \in AcceptSamples : Update(sm[1], sm[2], 10, MaxTime)
  /\ UNCHANGED script_vars

NextAccept == AcceptTick

SpecAccept == InitAccept /\ [][NextAccept]_vars

\* ------------------------------------------- the predictor's constructor

\* a data file as the loaders see it: whether open() finds it, whether its
\* header row names a column ngram, and per data row the text of that column
\* (short: the row ends before the column, and DictReader hands out None)
Row(text) == [ngram |-> text, short |-> FALSE]
ShortRow == [ngram |-> <<>>, short |-> TRUE]
File(rows) == [exists |-> TRUE, has_ngram |-> TRUE, rows |-> rows]
NoFile == [exists |-> FALSE, has_ngram |-> FALSE, rows |-> <<>>]
NoNgramColumn(rows) == [exists |-> TRUE, has_ngram |-> FALSE, rows |-> rows]

\* _load_unigrams over the rows that are left: row["ngram"].strip().upper(),
\* appended when non-empty; a missing column raises KeyError, and None has
\* no strip
RECURSIVE LoadUnigramRows(_, _, _)
LoadUnigramRows(file, k, acc) ==
  IF k > Len(file.rows) THEN [table |-> acc, raised |-> "none"]
  ELSE IF ~file.has_ngram THEN [table |-> acc, raised |-> "KeyError"]
  ELSE IF file.rows[k].short THEN [table |-> acc, raised |-> "AttributeError"]
  ELSE LET word == Upper(Strip(file.rows[k].ngram))
       IN LoadUnigramRows(file, k + 1,
                          IF word # <<>> THEN Append(acc, word) ELSE acc)

\* PredictiveText._load_unigrams(path)
LoadUnigrams(file) ==
  IF ~file.exists THEN [table |-> DefaultUnigrams, raised |-> "none"]
  ELSE LoadUnigramRows(file, 1, <<>>)

\* table[key].append(word) on a defaultdict(list)
TableAppend(table, key, word) ==
  IF key \in DOMAIN table THEN [table EXCEPT ![key] = Append(@, word)]
  ELSE table @@ (key :> <<word>>)

\* the loader of the table of order n over the rows that are left: rows that
\* do not split into n words are passed over; the key is the first word for
\* n = 2 and the tuple of the first n-1 words above that
RECURSIVE LoadNgramRows(_, _, _, _)
LoadNgramRows(file, n, k, acc) ==
  IF k > Len(file.rows) THEN [table |-> acc, raised |-> "none"]
  ELSE IF ~file.has_ngram THEN [table |-> acc, raised |-> "KeyError"]
  ELSE IF file.rows[k].short THEN [table |-> acc, raised |-> "AttributeError"]
  ELSE LET parts == SplitWs(Upper(Strip(file.rows[k].ngram)))
           key == IF n = 2 THEN parts[1] ELSE SubSeq(parts, 1, n - 1)
       IN LoadNgramRows(file, n, k + 1,
                        IF Len(parts) = n THEN TableAppend(acc, key, parts[n])
                        ELSE acc)

\* _load_bigrams, _load_trigrams, _load_quadrigrams, _load_pentagrams
LoadNgrams(file, n) ==
  IF ~file.exists THEN [table |-> EmptyTable, raised |-> "none"]
  ELSE LoadNgramRows(file, n, 1, EmptyTable)

\* the unigram files tried: present with padded, lower-case and blank rows,
\* absent, header only, no ngram column, a short row
UnigramFiles ==
  { File(<< Row(<<" ", "t", "h", "e", " ">>), Row(<<" ">>), Row(<<"T", "O">>) >>),
    NoFile,
    File(<<>>),
    NoNgramColumn(<< Row(<<"t", "h", "e">>) >>),
    File(<< Row(<<"t", "o">>), ShortRow >>) }

\* the bigram files tried: rows of two words, of one and of three
BigramFiles ==
  { File(<< Row(<<"g", "o", " ", "t", "o">>), Row(<<"t", "h", "e">>),
            Row(<<"G", "O", " ", "A", "T">>),
            Row(<<"i", " ", "g", "o", " ", "t", "o">>) >>),
    NoFile,
    File(<<>>),
    NoNgramColumn(<< Row(<<"g", "o", " ", "t", "o">>) >>),
    File(<< Row(<<"g", "o", " ", "t", "o">>), ShortRow >>) }

\* the trigram files tried
TrigramFiles ==
  { File(<< Row(<<"i", " ", "g", "o", " ", "t", "o">>),
            Row(<<"g", "o", " ", "t", "o">>) >>),
    NoFile,
    NoNgramColumn(<<>>),
    NoNgramColumn(<< Row(<<"i", " ", "g", "o", " ", "t", "o">>) >>) }

\* before PredictiveText.__init__ runs its loaders: the five paths name these
\* files, and the tables are still the empty list and the empty dicts
InitLoad ==
  /\ InitApp
  /\ unigrams = <<>>
  /\ bigrams = EmptyTable
  /\ trigrams = EmptyTable
  /\ quadrigrams = EmptyTable
  /\ pentagrams = EmptyTable
  /\ \E u \in UnigramFiles, b \in BigramFiles, tr \in TrigramFiles :
       query = [unigram_path |-> u, bigram_path |-> b, trigram_path |-> tr,
                quadrigram_path |-> NoFile, pentagram_path |-> NoFile]
  /\ result = [done |-> FALSE, raised |-> "none"]
  /\ script = 0
  /\ pos = 0
  /\ phase_start = ConstructTime
  /\ effect_time = 0

\* PredictiveText.__init__: the five loaders in order; the first exception
\* leaves the later tables as they were and ends the constructor
Construct ==
  /\ ~result.done
  /\ LET l1 == LoadUnigrams(query.unigram_path)
         l2 == LoadNgrams(query.bigram_path, 2)
         l3 == LoadNgrams(query.trigram_path, 3)
         l4 == LoadNgrams(query.quadrigram_path, 4)
         l5 == LoadNgrams(query.pentagram_path, 5)
         ok1 == l1.raised = "none"
         ok2 == ok1 /\ l2.raised = "none"
         ok3 == ok2 /\ l3.raised = "none"
         ok4 == ok3 /\ l4.raised = "none"
     IN /\ unigrams' = l1.table
        /\ bigrams' = IF ok1 THEN l2.table ELSE bigrams
        /\ trigrams' = IF ok2 THEN l3.table ELSE trigrams
        /\ quadrigrams' = IF ok3 THEN l4.table ELSE quadrigrams
        /\ pentagrams' = IF ok4 THEN l5.table ELSE pentagrams
        /\ result' = [done |-> TRUE,
                      raised |-> IF ~ok1 THEN l1.raised
                                 ELSE IF ~ok2 THEN l2.raised
                                 ELSE IF ~ok3 THEN l3.raised
                                 ELSE IF ~ok4 THEN l4.raised
                                 ELSE l5.raised]
  /\ UNCHANGED <<clock_vars, input_vars, app_vars, cap_vars, tts_vars, raised,
                 hist_vars, script_vars, query>>

NextLoad == Construct

SpecLoad == InitLoad /\ [][NextLoad]_vars

\* ------------------------------------------------------ serial_reader.py

\* how many lines the sensor writes and how many ticks the loop runs
MaxSamples == 3
MaxTicks == 3

\* _latest = None; a sample is named by its place among the parsed lines
NoSample == 0

\* read_latest that leaves the sample in place
ClearLatestKeeps(rd) == rd

\* read_latest: self._latest = None
ClearLatest(rd) == [rd EXCEPT !.latest = NoSample]

\* read_latest: val = self._latest
TakeLatest(rd) == [rd EXCEPT !.val = rd.latest]

\* _read_loop: self._latest = (roll, pitch)
StoreLatest(rd) == [rd EXCEPT !.latest = rd.pending]

\* SerialReader after connect() and HeadMouseGUI before its first _loop:
\* query is the reader (_latest, who holds _lock, where the reader thread
\* and the tick loop stand, their locals), result the history
InitReader ==
  /\ InitApp
  /\ InitTables
  /\ query = [latest |-> NoSample, lock |-> "free", rpc |-> "line",
              pending |-> NoSample, lpc |-> "idle", val |-> NoSample,
              ticks |-> 0]
  /\ result = [lines |-> 0, stored |-> NoSample, returned |-> <<>>,
               updates |-> <<>>]
  /\ script = 0
  /\ pos = 0
  /\ phase_start = ConstructTime
  /\ effect_time = 0

reader_frame ==
  <<clock_vars, table_vars, input_vars, app_vars, cap_vars, tts_vars, raised,
    hist_vars, script_vars>>

\* _read_loop: a line that parses into two floats
ReaderParse ==
  /\ query.rpc = "line"
  /\ result.lines < MaxSamples
  /\ query' = [query EXCEPT !.rpc = "acquire", !.pending = result.lines + 1]
  /\ result' = [result EXCEPT !.lines = @ + 1]
  /\ UNCHANGED reader_frame

\* _read_loop: a blank line, or one that raises ValueError
ReaderSkip ==
  /\ query.rpc = "line"
  /\ result.lines < MaxSamples
  /\ result' = [result EXCEPT !.lines = @ + 1]
  /\ UNCHANGED <<reader_frame, query>>

\* _read_loop: with self._lock
ReaderAcquire ==
  /\ query.rpc = "acquire"
  /\ query.lock = "free"
  /\ query' = [query EXCEPT !.lock = "reader", !.rpc = "store"]
  /\ UNCHANGED <<reader_frame, result>>

ReaderStore ==
  /\ query.rpc = "store"
  /\ query' = [StoreLatest(query) EXCEPT !.rpc = "release"]
  /\ result' = [result EXCEPT !.stored = query.pending]
  /\ UNCHANGED reader_frame

ReaderRelease ==
  /\ query.rpc = "release"
  /\ query' = [query EXCEPT !.lock = "free", !.rpc = "line"]
  /\ UNCHANGED <<reader_frame, result>>

\* _loop calls read_latest: with self._lock
LoopAcquire ==
  /\ query.lpc = "idle"
  /\ query.ticks < MaxTicks
  /\ query.lock = "free"
  /\ query' = [query EXCEPT !.lock = "loop", !.lpc = "take", !.ticks = @ + 1]
  /\ UNCHANGED <<reader_frame, result>>

LoopTake ==
  /\ query.lpc = "take"
  /\ query' = [TakeLatest(query) EXCEPT !.lpc = "clear"]
  /\ UNCHANGED <<reader_frame, result>>

LoopClear ==
  /\ query.lpc = "clear"
  /\ query' = [ClearLatest(query) EXCEPT !.lpc = "return"]
  /\ UNCHANGED <<reader_frame, result>>

\* read_latest: return val, leaving the with block
LoopReturn ==
  /\ query.lpc = "return"
  /\ query' = [query EXCEPT !.lock = "free", !.lpc = "data"]
  /\ result' = [result EXCEPT !.returned = Append(@, query.val)]
  /\ UNCHANGED reader_frame

\* _loop: if data is not None: self.state.update(roll, pitch)
LoopUpdate ==
  /\ query.lpc = "data"
  /\ query.val # NoSample
  /\ query' = [query EXCEPT !.lpc = "idle"]
  /\ result' = [result EXCEPT !.updates = Append(@, query.val)]
  /\ UNCHANGED reader_frame

\* _loop: data is None, nothing to do until the next tick
LoopIdle ==
  /\ query.lpc = "data"
  /\ query.val = NoSample
  /\ query' = [query EXCEPT !.lpc = "idle"]
  /\ UNCHANGED <<reader_frame, result>>

NextReader ==
  \/ ReaderParse
  \/ ReaderSkip
  \/ ReaderAcquire
  \/ ReaderStore
  \/ ReaderRelease
  \/ LoopAcquire
  \/ LoopTake
  \/ LoopClear
  \/ LoopReturn
  \/ LoopUpdate
  \/ LoopIdle

SpecReader == InitReader /\ [][NextReader]_vars

\* ------------------------------------------------- TTSQueue and its worker

\* how many times speak() is called
MaxSpeak == 3

\* the texts handed to speak(), in call order: the k-th call passes the k-th
\* of them padded with a space, or a blank text
Utterances == << <<"H", "I">>, <<"T", "O">>, <<"A", "T">>, <<"G", "O">> >>
Blank == <<" ">>

\* how _speak_now can end: played, TimeoutExpired (both processes killed),
\* FileNotFoundError, any other exception; each is caught and logged
SpeakOutcomes == {"played", "timeout", "not_found", "error"}

\* a worker that gives up after an utterance that did not play
WorkerStopsOnFailure(outcome) == IF outcome = "played" THEN "get" ELSE "dead"

\* _worker: whatever _speak_now did, the loop goes back to self._q.get()
WorkerAfter(outcome) == "get"

\* TTSQueue.__init__: an empty queue and the worker waiting in get(); query
\* is the worker (where it stands, the text it holds), result the history
\* (the texts passed to _speak_now, how each ended, the texts clear() dropped)
InitTTS ==
  /\ InitApp
  /\ InitTables
  /\ query = [pc |-> "get", text |-> <<>>]
  /\ result = [passed |-> <<>>, outcomes |-> <<>>, cleared |-> {}]
  /\ script = 0
  /\ pos = 0
  /\ phase_start = ConstructTime
  /\ effect_time = 0

tts_frame ==
  <<clock_vars, table_vars, input_vars, app_vars, cap_vars, raised, hist_vars,
    script_vars>>

\* a call of TTSQueue.speak(text)
SpeakCall ==
  /\ Len(speak_calls) < MaxSpeak
  /\ \E text \in {Utterances[Len(speak_calls) + 1] \o <<" ">>, Blank} :
       \E r \in {Speak(Cur, text)} :
         /\ tts_q' = r.tts_q
         /\ speak_calls' = r.speak_calls
  /\ UNCHANGED <<tts_frame, query_vars>>

\* a call of TTSQueue.clear()
ClearCall ==
  /\ tts_q # <<>>
  /\ tts_q' = <<>>
  /\ result' = [result EXCEPT
                  !.cleared = @ \cup { tts_q[i] : i \in 1..Len(tts_q) }]
  /\ UNCHANGED <<tts_frame, speak_calls, query>>

\* _worker: text = self._q.get(), then _speak_now(text) is entered
WorkerGet ==
  /\ query.pc = "get"
  /\ tts_q # <<>>
  /\ query' = [pc |-> "speak", text |-> Head(tts_q)]
  /\ tts_q' = Tail(tts_q)
  /\ result' = [result EXCEPT !.passed = Append(@, Head(tts_q))]
  /\ UNCHANGED <<tts_frame, speak_calls>>

\* _speak_now comes back, one way or another, within its timeouts
SpeakNowDone ==
  /\ query.pc = "speak"
  /\ \E outcome \in SpeakOutcomes :
       /\ query' = [pc |-> WorkerAfter(outcome), text |-> <<>>]
       /\ result' = [result EXCEPT !.outcomes = Append(@, outcome)]
  /\ UNCHANGED <<tts_frame, tts_vars>>

NextTTS == SpeakCall \/ ClearCall \/ WorkerGet \/ SpeakNowDone

\* the worker thread keeps running, and _speak_now ends within PIPER_TIMEOUT
\* plus PLAYER_TIMEOUT
SpecTTS ==
  /\ InitTTS
  /\ [][NextTTS]_vars
  /\ WF_vars(WorkerGet)
  /\ WF_vars(SpeakNowDone)

\* ------------------------------------------ the user who commits glyphs

\* edit buffers typed earlier
GlyphSentences == { <<>>, <<" ">>, <<"H", "I", " ">>, <<"H", " ", "I">> }
GlyphPrefixes == { <<>>, <<"H">>, <<"H", "I">> }

\* the cursor on any glyph of the ring
GlyphCursors == 0..(Len(ALPHABET) - 1)

\* the tick on which NW has just fired and toggled CAPTION to WRITE, the edit
\* buffer and the cursor being what an earlier stay in WRITE left
InitGlyph ==
  /\ now = ConstructTime + DWELL_DIAGONAL_SEC + 10
  /\ direction = DIR_NW
  /\ current_dir = DIR_NW
  /\ dwell_start = now
  /\ dwell_seconds = 0
  /\ mode = MODE_WRITE
  /\ sentence \in GlyphSentences
  /\ prefix \in GlyphPrefixes
  /\ cursor_index \in GlyphCursors
  /\ sugg_index = 0
  /\ InitTables
  /\ suggestions = GetSuggestions(prefix, sentence, MAX_RESULTS).cands
  /\ ngram_level = GetSuggestions(prefix, sentence, MAX_RESULTS).level
  /\ ngram_context = GetSuggestions(prefix, sentence, MAX_RESULTS).ctx
  /\ transcript_scroll = 0
  /\ last_scroll_time = 0
  /\ diagonal_fired = DIR_NW
  /\ flash_direction = DIR_NW
  /\ flash_end = now + FLASH_SEC
  /\ center_cooldown_until = 0
  /\ was_off_center = TRUE
  /\ transcript = <<>>
  /\ partial = <<>>
  /\ paused = FALSE
  /\ tts_q = <<>>
  /\ speak_calls = <<>>
  /\ raised = "none"
  /\ last = [act |-> "diagonal", dir |-> DIR_NW, mode |-> MODE_CAPTION,
             sel |-> ""]
  /\ run_start = now - DWELL_DIAGONAL_SEC
  /\ run_fires = 1
  /\ NoQuery
  /\ script = 0
  /\ pos = 0
  /\ phase_start = ConstructTime
  /\ effect_time = 0

\* a tick of the committing user at CENTER, 1 s after the last
GlyphTick ==
  /\ Update(AT_CENTER[1], AT_CENTER[2], 10, MaxTime)
  /\ UNCHANGED script_vars

NextGlyph == GlyphTick

SpecGlyph == InitGlyph /\ [][NextGlyph]_vars

\* ------------------------------------- the user who moves between diagonals

\* the clock advance between two ticks: within a flash, and a full second
DiagonalSteps == {2, 10}

\* how long the user goes on
DiagonalSpan == 50

DiagonalSamples == {AT_NE, AT_NW, AT_SE, AT_CENTER, IN_DEAD_BAND}

\* one tick; effect_time is the clock at the last tick on which a diagonal
\* action fired, 0 before the first
DiagonalTick ==
  /\ \E sm \in DiagonalSamples, dt \in DiagonalSteps :
       Update(sm[1], sm[2], dt, DiagonalSpan)
  /\ effect_time' = IF last'.act = "diagonal" THEN now' ELSE effect_time
  /\ UNCHANGED <<script, pos, phase_start>>

NextDiagonal == DiagonalTick

SpecDiagonal == Init /\ [][NextDiagonal]_vars

\* ------------------------------------------- the user who dwells at CENTER

\* the clock advance between two ticks
CenterSteps == {10, 15}

\* how long the user goes on
CenterSpan == 130

CenterSamples == {AT_CENTER, AT_E}

\* one tick in WRITE, at CENTER or off it; pos = 1 says NW is behind, and
\* phase_start is the clock at the last tick that returned to CENTER from
\* off-center or committed at CENTER
CenterTick ==
  /\ mode = MODE_WRITE
  /\ \E sm \in CenterSamples, dt \in CenterSteps :
       Update(sm[1], sm[2], dt, CenterSpan)
  /\ pos' = 1
  /\ phase_start' =
       IF direction' = DIR_CENTER
          /\ (direction # DIR_CENTER \/ last'.act = "center")
       THEN now' ELSE phase_start
  /\ UNCHANGED <<script, effect_time>>

NextCenter == EnterWrite \/ CenterTick

SpecCenter == Init /\ [][NextCenter]_vars

\* --------------------------------------------- the captioner and its threads

\* how many chunks of audio the stream captures
MaxChunks == 3

\* what the recognizer makes of the audio: final texts, and no text at all
CaptionTexts == { <<"h", "i">>, <<"y", "o", "u">> }
NoText == <<>>

\* Captioner after __init__ with the controller in front of it: query is the
\* captioner's queue and where its threads stand (cb the audio callback, rec
\* the recognition loop with its locals data and text, ctl the controller
\* inside clear()), result what the controller has read of the transcript
\* since it last cleared it
InitCaption ==
  /\ InitApp
  /\ InitTables
  /\ query = [audio_queue |-> <<>>, captured |-> 0, cb |-> "idle",
              rec |-> "get", data |-> 0, text |-> NoText, ctl |-> "idle"]
  /\ result = [seen |-> <<>>]
  /\ script = 0
  /\ pos = 0
  /\ phase_start = ConstructTime
  /\ effect_time = 0

caption_frame ==
  <<clock_vars, table_vars, input_vars, app_vars, tts_vars, raised, hist_vars,
    script_vars>>

\* _audio_callback: if not self.paused
CallbackCheck ==
  /\ query.cb = "idle"
  /\ query.captured < MaxChunks
  /\ query' = [query EXCEPT !.captured = @ + 1,
                            !.cb = IF paused THEN "idle" ELSE "put"]
  /\ UNCHANGED <<caption_frame, cap_vars, result>>

\* _audio_callback: self._audio_queue.put(in_data)
CallbackPut ==
  /\ query.cb = "put"
  /\ query' = [query EXCEPT !.audio_queue = Append(@, query.captured),
                            !.cb = "idle"]
  /\ UNCHANGED <<caption_frame, cap_vars, result>>

\* _recognition_loop: data = self._audio_queue.get(timeout=0.1)
RecogGet ==
  /\ query.rec = "get"
  /\ query.audio_queue # <<>>
  /\ query' = [query EXCEPT !.data = Head(query.audio_queue),
                            !.audio_queue = Tail(@),
                            !.rec = "accept"]
  /\ UNCHANGED <<caption_frame, cap_vars, result>>

\* _recognition_loop: AcceptWaveform(data) is true and the result is read
RecogFinal ==
  /\ query.rec = "accept"
  /\ \E text \in CaptionTexts \cup {NoText} :
       query' = [query EXCEPT !.text = Upper(text),
                              !.rec = IF Upper(text) # <<>>
                                      THEN "append" ELSE "get"]
  /\ UNCHANGED <<caption_frame, cap_vars, result>>

\* _recognition_loop: AcceptWaveform(data) is false, the partial is stored
RecogPartial ==
  /\ query.rec = "accept"
  /\ \E text \in CaptionTexts \cup {NoText} : partial' = Upper(text)
  /\ query' = [query EXCEPT !.rec = "get"]
  /\ UNCHANGED <<caption_frame, transcript, paused, result>>

\* list.append putting the new line in front
AppendLineFirst(lines, text) == <<text>> \o lines

\* self.transcript.append(text)
AppendLine(lines, text) == Append(lines, text)

\* _recognition_loop: self.transcript.append(text)
RecogAppend ==
  /\ query.rec = "append"
  /\ transcript' = AppendLine(transcript, query.text)
  /\ query' = [query EXCEPT !.rec = "reset"]
  /\ UNCHANGED <<caption_frame, partial, paused, result>>

\* _recognition_loop: self.partial = ""
RecogReset ==
  /\ query.rec = "reset"
  /\ partial' = <<>>
  /\ query' = [query EXCEPT !.rec = "get"]
  /\ UNCHANGED <<caption_frame, transcript, paused, result>>

\* the controller fires SE in CAPTION: toggle_pause()
ControllerToggle ==
  /\ query.ctl = "idle"
  /\ paused' = TogglePause(Cur).paused
  /\ UNCHANGED <<caption_frame, transcript, partial, query, result>>

\* the controller fires SW in CAPTION: clear(), self.transcript.clear()
ControllerClear ==
  /\ query.ctl = "idle"
  /\ transcript' = CaptionerClear(Cur).transcript
  /\ query' = [query EXCEPT !.ctl = "partial"]
  /\ result' = [result EXCEPT !.seen = <<>>]
  /\ UNCHANGED <<caption_frame, partial, paused>>

\* clear(): self.partial = ""
ControllerClearPartial ==
  /\ query.ctl = "partial"
  /\ partial' = CaptionerClear(Cur).partial
  /\ query' = [query EXCEPT !.ctl = "idle"]
  /\ UNCHANGED <<caption_frame, transcript, paused, result>>

\* the controller reads the transcript (get_last_word, the caption scene)
ControllerRead ==
  /\ query.ctl = "idle"
  /\ result' = [result EXCEPT !.seen = transcript]
  /\ UNCHANGED <<caption_frame, cap_vars, query>>

NextCaption ==
  \/ CallbackCheck
  \/ CallbackPut
  \/ RecogGet
  \/ RecogFinal
  \/ RecogPartial
  \/ RecogAppend
  \/ RecogReset
  \/ ControllerToggle
  \/ ControllerClear
  \/ ControllerClearPartial
  \/ ControllerRead

SpecCaption == InitCaption /\ [][NextCaption]_vars

\* ------------------------------------------------------------- properties

WORLD == <<"W", "O", "R", "L", "D">>

\* C1: on every run of consecutive ticks classified as one diagonal, the
\* diagonal's action has fired on no tick while the run is shorter than the
\* diagonal dwell threshold and on exactly one tick once the run has lasted
\* that long, however much longer the diagonal is held.
C1_DiagonalFiresOnce ==
  direction \in DIAGONALS =>
    /\ run_fires <= 1
    /\ (now - run_start >= DWELL_DIAGONAL_SEC) <=> (run_fires = 1)

\* a diagonal held for twice the threshold, which has fired once
C1_Witness ==
  /\ direction \in DIAGONALS
  /\ now - run_start >= 2 * DWELL_DIAGONAL_SEC
  /\ run_fires = 1

\* C2: no call of update() raises an exception.
C2_UpdateNeverRaises == raised = "none"

\* C3: a center commit of '.' with a message that is not whitespace-only
\* appends the prefix to the sentence, calls speak once with the trimmed
\* sentence and leaves sentence and prefix empty; nothing else calls speak.
C3_SendSpeaksOnce ==
  [][ IF /\ now' # now
         /\ last'.act = "center"
         /\ last'.sel = "."
         /\ Strip(sentence \o prefix) # <<>>
      THEN /\ speak_calls' = Append(speak_calls, Strip(sentence \o prefix))
           /\ sentence' = <<>>
           /\ prefix' = <<>>
      ELSE speak_calls' = speak_calls ]_vars

\* C4: a center commit of '.' with an empty prefix and an empty or
\* whitespace-only sentence calls no speak, enqueues nothing and leaves
\* sentence and prefix as they were.
C4_EmptySendIsNoOp ==
  [][ ( /\ now' # now
        /\ last'.act = "center"
        /\ last'.sel = "."
        /\ prefix = <<>>
        /\ Strip(sentence) = <<>> )
      => /\ speak_calls' = speak_calls
         /\ tts_q' = tts_q
         /\ sentence' = sentence
         /\ prefix' = prefix ]_vars

\* '.' has just been committed on a sentence of one space
C4_Witness ==
  /\ last.act = "center"
  /\ last.sel = "."
  /\ raised = "none"
  /\ sentence = <<" ">>
  /\ prefix = <<>>
  /\ speak_calls = <<>>
  /\ tts_q = <<>>

\* C5 as amended: from WRITE with empty sentence and prefix, slot 0 and the
\* cursor on 'H', CENTER held for cooldown plus threshold (4.0 s) commits
\* prefix "H" and not earlier; one E tick moves the cursor to 'I'; CENTER held
\* again for 4.0 s commits prefix "HI"; SE held for 2.0 s leaves prefix "H".
C5_TypeHI ==
  script = ScriptId(TypeHI) =>
    /\ pos = 2 =>
         /\ mode = MODE_WRITE /\ sentence = <<>> /\ sugg_index = 0
         /\ ALPHABET[cursor_index + 1] = "H"
         /\ prefix = IF Held < CENTER_COOLDOWN_SEC + DWELL_CENTER_SEC
                     THEN <<>> ELSE <<"H">>
    /\ pos = 3 => prefix = <<"H">> /\ ALPHABET[cursor_index + 1] = "I"
    /\ pos = 4 =>
         prefix = IF Held < CENTER_COOLDOWN_SEC + DWELL_CENTER_SEC
                  THEN <<"H">> ELSE <<"H", "I">>
    /\ pos = 5 =>
         prefix = IF Held < DWELL_DIAGONAL_SEC THEN <<"H", "I">> ELSE <<"H">>

\* the end of the amended scenario
C5_Witness ==
  /\ script = ScriptId(TypeHI)
  /\ pos = 5
  /\ Held = DWELL_DIAGONAL_SEC
  /\ prefix = <<"H">>
  /\ sentence = <<>>

\* C5 as stated: CENTER held for the 3.0 s threshold commits prefix "H"
C5_AsStated ==
  (script = ScriptId(TypeHIShort) /\ pos = 2 /\ Held = DWELL_CENTER_SEC)
    => prefix = <<"H">>

\* a line has a word when some character of it is not white space
HasWord(line) == \E k \in 1..Len(line) : ~IsSpace(line[k])

\* w is the last maximal run of non-space characters of line
IsLastWordOf(w, line) ==
  /\ w # <<>>
  /\ \A k \in 1..Len(w) : ~IsSpace(w[k])
  /\ \E i \in 1..Len(line) :
       /\ i + Len(w) - 1 <= Len(line)
       /\ SubSeq(line, i, i + Len(w) - 1) = w
       /\ i > 1 => IsSpace(line[i - 1])
       /\ \A k \in (i + Len(w))..Len(line) : IsSpace(line[k])

\* C6: when NE fires in CAPTION mode and the last transcript line has a
\* word, prefix becomes that line's last word and mode becomes WRITE;
\* with an empty transcript, or no word on the last line, mode and prefix
\* stay as they were.
C6_CaptionBridge ==
  [][ ( /\ now' # now
        /\ last'.act = "diagonal"
        /\ last'.dir = DIR_NE
        /\ mode = MODE_CAPTION )
      => IF transcript # <<>> /\ HasWord(transcript[Len(transcript)])
         THEN /\ IsLastWordOf(prefix', transcript[Len(transcript)])
              /\ mode' = MODE_WRITE
         ELSE /\ prefix' = prefix
              /\ mode' = mode ]_vars

\* NE has just bridged HELLO WORLD into WRITE
C6_Witness ==
  /\ last.act = "diagonal"
  /\ last.dir = DIR_NE
  /\ last.mode = MODE_CAPTION
  /\ mode = MODE_WRITE
  /\ prefix = WORLD
  /\ transcript # <<>>

\* C7: in every state 0 <= sugg_index <= len(suggestions).
C7_SuggIndexInRange == sugg_index \in 0..Len(suggestions)

\* C8: cursor_index stays in 0 .. len(ALPHABET)-1; an accepted E step in
\* WRITE moves it one glyph on, from the last glyph to index 0, an accepted W
\* step one glyph back, from index 0 to the last glyph; nothing else moves it.
C8_CursorRing ==
  [][ /\ cursor_index' \in 0..(Len(ALPHABET) - 1)
      /\ cursor_index' =
           IF /\ now' # now /\ last'.act = "cardinal"
              /\ mode = MODE_WRITE /\ last'.dir = DIR_E
           THEN (IF cursor_index = Len(ALPHABET) - 1 THEN 0
                 ELSE cursor_index + 1)
           ELSE IF /\ now' # now /\ last'.act = "cardinal"
                   /\ mode = MODE_WRITE /\ last'.dir = DIR_W
           THEN (IF cursor_index = 0 THEN Len(ALPHABET) - 1
                 ELSE cursor_index - 1)
           ELSE cursor_index ]_vars

\* an E step has just brought the cursor to index 0, which only the wrap from
\* the last glyph does
C8_Witness ==
  /\ last.act = "cardinal"
  /\ last.dir = DIR_E
  /\ last.mode = MODE_WRITE
  /\ cursor_index = 0

\* C9: in every state 0 <= transcript_scroll <= max(0, len(transcript)-1).
C9_ScrollInRange ==
  /\ 0 <= transcript_scroll
  /\ transcript_scroll <= Max(0, Len(transcript) - 1)

\* the transcript is scrolled up to its oldest line
C9_Witness ==
  /\ Len(transcript) = MaxLines
  /\ transcript_scroll = MaxLines - 1
  /\ last.act = "cardinal"
  /\ last.dir = DIR_N

\* the words and the prefix get_suggestions works on for the last query
QueryWords == SplitWs(Upper(Strip(query.context)))
QueryPrefix == Upper(Strip(query.current_input))

\* C10: whenever the last four words of a context of at least four words are
\* a pentagram key with an entry that starts with the prefix, the reported
\* level is "5G".
C10_PentagramReports5G ==
  LET n == Len(QueryWords)
      key == SubSeq(QueryWords, n - 3, n)
  IN ( /\ query.max_results > 0
       /\ n >= 4
       /\ key \in DOMAIN pentagrams
       /\ \E i \in 1..Len(pentagrams[key]) :
            StartsWith(pentagrams[key][i], QueryPrefix) )
     => result.level = "5G"

\* C11 as stated: with an empty context every candidate returned for a
\* non-empty prefix starts with the upper-cased prefix
C11_AsStated ==
  ( /\ query.max_results > 0
    /\ query.current_input # <<>>
    /\ query.context = <<>> )
  => \A i \in 1..Len(result.cands) :
       StartsWith(result.cands[i], Upper(query.current_input))

\* C11 as amended: with an empty context and a prefix that is not blank,
\* if some unigram starts with the trimmed upper-cased prefix then every
\* candidate returned starts with it; if none does, the first max_results
\* unigrams are returned whatever they start with.
C11_PrefixFilter ==
  ( /\ QueryPrefix # <<>>
    /\ query.context = <<>> )
  => IF \E i \in 1..Len(unigrams) : StartsWith(unigrams[i], QueryPrefix)
     THEN /\ \A i \in 1..Len(result.cands) :
               StartsWith(result.cands[i], QueryPrefix)
          /\ query.max_results > 0 => result.cands # <<>>
     ELSE result.cands = SubSeq(unigrams, 1, Min(query.max_results, Len(unigrams)))

\* the lower-case prefix t has selected THE and TO and left AT out
C11_Witness ==
  /\ query.current_input = <<"t">>
  /\ query.context = <<>>
  /\ unigrams = <<THE, TO, AT>>
  /\ result.cands = <<THE, TO>>

\* C13: get_suggestions returns at most max_results candidates, and the
\* list update() stores in WRITE mode for the same prefix and sentence, asked
\* for with MAX_RESULTS, has at most that many entries.
C13_AtMostMaxResults ==
  /\ Len(result.cands) <= query.max_results
  /\ Len(RefreshSuggestions([Cur EXCEPT !.mode = MODE_WRITE,
                                        !.prefix = query.current_input,
                                        !.sentence = query.context]).suggestions)
       <= MAX_RESULTS

\* more candidates were found than were asked for, and the list was cut
C13_Witness ==
  /\ query.max_results = 2
  /\ Len(result.cands) = 2
  /\ query.current_input = <<>>
  /\ query.context = JoinSpace(Key4)
  /\ Len(TableGet(pentagrams, Key4)) = 3

\* the items of s that are no element of p, in the order s has them
RECURSIVE NotIn(_, _)
NotIn(s, p) ==
  IF s = <<>> THEN <<>>
  ELSE (IF Head(s) \in {p[i] : i \in 1..Len(p)} THEN <<>> ELSE <<Head(s)>>)
       \o NotIn(Tail(s), p)

\* C12: _merge(primary, secondary) is primary, unchanged and in order,
\* followed by the items of secondary that are not in primary, in secondary's
\* order; [CAT, DOG] merged with [DOG, THE] is [CAT, DOG, THE].
C12_MergeKeepsPrimary ==
  result.done =>
    /\ Len(result.value) >= Len(query.primary)
    /\ SubSeq(result.value, 1, Len(query.primary)) = query.primary
    /\ SubSeq(result.value, Len(query.primary) + 1, Len(result.value))
         = NotIn(query.secondary, query.primary)
    /\ (query.primary = <<CAT, DOG>> /\ query.secondary = <<DOG, THE>>)
         => result.value = <<CAT, DOG, THE>>

\* [CAT, DOG] has been merged with [DOG, THE]
C12_Witness ==
  /\ result.done
  /\ query.primary = <<CAT, DOG>>
  /\ query.secondary = <<DOG, THE>>
  /\ result.value = <<CAT, DOG, THE>>

\* C14: a sample with roll^2 + pitch^2 < 0.12^2 is classified CENTER
\* whatever its angle.
C14_DeadzoneIsCenter ==
  ( /\ result.done
    /\ query.roll * query.roll + query.pitch * query.pitch
         < DEADZONE_RADIUS * DEADZONE_RADIUS )
  => result.value = DIR_CENTER

\* a sample inside the deadzone, exactly on the NW centre angle
C14_Witness ==
  /\ result.done
  /\ query.roll = 8
  /\ query.pitch = 8
  /\ result.value = DIR_CENTER

\* the sector centres as directions in the plane of atan2(pitch, -roll):
\* E at 0 degrees, then every 45 degrees counter-clockwise
SectorCentres ==
  { [dir |-> DIR_E,  cx |-> 1,  cy |-> 0],  [dir |-> DIR_NE, cx |-> 1,  cy |-> 1],
    [dir |-> DIR_N,  cx |-> 0,  cy |-> 1],  [dir |-> DIR_NW, cx |-> -1, cy |-> 1],
    [dir |-> DIR_W,  cx |-> -1, cy |-> 0],  [dir |-> DIR_SW, cx |-> -1, cy |-> -1],
    [dir |-> DIR_S,  cx |-> 0,  cy |-> -1], [dir |-> DIR_SE, cx |-> 1,  cy |-> -1] }

\* the angle between (x, y) and the centre c is at most 12.5 degrees: the
\* tangent of that angle is |cross product| / dot product
WithinHalfWidth(x, y, c) ==
  LET dot == x * c.cx + y * c.cy
      cross == c.cx * y - c.cy * x
  IN /\ dot > 0
     /\ (IF cross < 0 THEN -cross ELSE cross) * TAN_SCALE
          <= dot * TAN_SECTOR_HALF_WIDTH

\* C15: outside the deadzone a sample within 12.5 degrees of a sector centre
\* is classified as that sector, a sample more than 12.5 degrees from every
\* centre as CENTER, and no sample is within 12.5 degrees of two centres;
\* pitch = 1, roll = 0 is N and a sample 20 degrees off E is CENTER.
C15_SectorsAndDeadBands ==
  ( /\ result.done
    /\ query.roll * query.roll + query.pitch * query.pitch
         >= DEADZONE_RADIUS * DEADZONE_RADIUS )
  => LET near == {c \in SectorCentres :
                    WithinHalfWidth(-query.roll, query.pitch, c)}
     IN /\ \A c \in near : result.value = c.dir
        /\ near = {} => result.value = DIR_CENTER
        /\ Cardinality(near) <= 1
        /\ (query.roll = 0 /\ query.pitch = 100) => result.value = DIR_N
        /\ <<query.roll, query.pitch>> = OFF_E_20 => result.value = DIR_CENTER

\* the sample 20 degrees off E has been classified CENTER
C15_Witness ==
  /\ result.done
  /\ <<query.roll, query.pitch>> = OFF_E_20
  /\ result.value = DIR_CENTER

\* C16: with update() the only caller and a clock that never runs backwards,
\* a call that classifies a direction other than the previous one leaves
\* dwell_seconds 0; a call that classifies the same direction leaves it no
\* smaller than it was and equal to the time since that direction was first
\* seen (for the CENTER the processor is constructed with, since construction).
C16_DwellMonotone ==
  [][ /\ direction' # direction => dwell_seconds' = 0
      /\ direction' = direction =>
           /\ dwell_seconds' >= dwell_seconds
           /\ dwell_seconds' = now' - run_start' ]_vars

\* N first seen after construction and held for two seconds since
C16_Witness ==
  /\ direction = DIR_N
  /\ run_start > ConstructTime
  /\ dwell_seconds = 20
  /\ now = run_start + 20

\* C17: on a tick that brings the direction back to CENTER from elsewhere,
\* a dead band included, the dwell timer restarts, the cooldown is armed for
\* CENTER_COOLDOWN_SEC and nothing is committed; no center commit happens on a
\* tick up to CENTER_COOLDOWN_SEC after the return.
C17_CenterReturnCooldown ==
  [][ now' # now =>
        /\ (direction # DIR_CENTER /\ direction' = DIR_CENTER) =>
             /\ dwell_start' = now'
             /\ dwell_seconds' = 0
             /\ center_cooldown_until' = now' + CENTER_COOLDOWN_SEC
             /\ last'.act # "center"
        /\ last'.act = "center" =>
             /\ direction' = DIR_CENTER
             /\ now' - run_start' > CENTER_COOLDOWN_SEC ]_vars

\* the first commit after a return into the dead band
C17_Witness ==
  /\ script = ScriptId(TypeInDeadBand)
  /\ pos = 2
  /\ last.act = "center"
  /\ run_start = phase_start
  /\ now - run_start = CENTER_COOLDOWN_SEC + DWELL_CENTER_SEC
  /\ prefix = <<"H">>

\* C18: a cardinal step that takes effect (cursor, suggestion slot or
\* transcript scroll moves) comes at least SCROLL_COOLDOWN_SEC after the last
\* one that did; a cardinal tick less than SCROLL_COOLDOWN_SEC after the last
\* accepted one moves none of them and leaves mode, sentence, prefix and the
\* cooldown timestamp alone.
C18_CardinalCooldown ==
  [][ (now' # now /\ direction' \in CARDINALS) =>
        /\ ( \/ cursor_index' # cursor_index
             \/ sugg_index' # sugg_index
             \/ transcript_scroll' # transcript_scroll )
           => now' - effect_time >= SCROLL_COOLDOWN_SEC
        /\ now' - last_scroll_time < SCROLL_COOLDOWN_SEC
           => UNCHANGED <<cursor_index, sugg_index, transcript_scroll,
                          last_scroll_time, mode, sentence, prefix>> ]_vars

\* in WRITE a step has moved the cursor and the next tick, on another
\* cardinal and within the cooldown, has been held back
C18_Witness ==
  /\ mode = MODE_WRITE
  /\ direction = DIR_W
  /\ last.act = "none"
  /\ cursor_index = 1
  /\ effect_time = last_scroll_time
  /\ now - effect_time < SCROLL_COOLDOWN_SEC
  /\ now > effect_time

\* the update has just done a backspace: SE fired in WRITE, or '<' committed
DidBackspace ==
  /\ now' # now
  /\ \/ last'.act = "diagonal" /\ last'.dir = DIR_SE /\ mode = MODE_WRITE
     \/ last'.act = "center" /\ last'.sel = "<"

\* C19: a backspace removes the last character of prefix and leaves sentence
\* alone when prefix is non-empty; otherwise it removes the last character
\* of sentence and leaves prefix alone when sentence is non-empty; otherwise
\* it changes neither.
C19_BackspaceOneChar ==
  [][ DidBackspace =>
        IF prefix # <<>>
        THEN /\ prefix' = SubSeq(prefix, 1, Len(prefix) - 1)
             /\ sentence' = sentence
        ELSE IF sentence # <<>>
        THEN /\ sentence' = SubSeq(sentence, 1, Len(sentence) - 1)
             /\ prefix' = prefix
        ELSE /\ sentence' = sentence
             /\ prefix' = prefix ]_vars

\* '<' has been committed on an empty prefix and has taken the second of the
\* sentence's two trailing spaces, or the last of three
C19_Witness ==
  /\ last.act = "center"
  /\ last.sel = "<"
  /\ prefix = <<>>
  /\ sentence = <<"H", "I", " ">>

\* the update has just done a delete-word: SW fired in WRITE, or '['
\* committed
DidDeleteWord ==
  /\ now' # now
  /\ \/ last'.act = "diagonal" /\ last'.dir = DIR_SW /\ mode = MODE_WRITE
     \/ last'.act = "center" /\ last'.sel = "["

\* where the last word of a line that has one begins
LastWordStart(line) ==
  CHOOSE i \in 1..Len(line) :
    /\ ~IsSpace(line[i])
    /\ i > 1 => IsSpace(line[i - 1])
    /\ \A k \in (i + 1)..Len(line) :
         ~IsSpace(line[k]) => \A m \in i..k : ~IsSpace(line[m])

\* C20 as stated: with an empty prefix a delete-word leaves the words before
\* the last one, in order, ended by exactly one space, or "" if none remains
C20_AsStated ==
  [][ (DidDeleteWord /\ prefix = <<>>) =>
        /\ SplitWs(sentence') = DropLast(SplitWs(sentence))
        /\ prefix' = prefix
        /\ IF SplitWs(sentence') = <<>> THEN sentence' = <<>>
           ELSE /\ sentence'[Len(sentence')] = " "
                /\ sentence'[Len(sentence') - 1] # " " ]_vars

\* C20 as amended: with a non-empty prefix a delete-word empties prefix and
\* leaves sentence alone; with an empty prefix it removes the last word of
\* sentence, the spaces after it and the spaces before the first word, and
\* keeps what lies between as it was: the earlier words in order, each with
\* the spaces that followed it; a sentence without a word becomes "".
C20_DeleteWord ==
  [][ DidDeleteWord =>
        IF prefix # <<>>
        THEN /\ prefix' = <<>>
             /\ sentence' = sentence
        ELSE /\ prefix' = prefix
             /\ SplitWs(sentence') = DropLast(SplitWs(sentence))
             /\ IF HasWord(sentence)
                THEN sentence' =
                       LStrip(SubSeq(sentence, 1, LastWordStart(sentence) - 1))
                ELSE sentence' = <<>> ]_vars

\* '[' has been committed on "H  I " with an empty prefix: both spaces
\* after H are still there
C20_Witness ==
  /\ last.act = "center"
  /\ last.sel = "["
  /\ prefix = <<>>
  /\ sentence = <<"H", " ", " ">>

\* C21: when the NE action fires in WRITE, with the suggestions computed on
\* that tick non-empty, sentence gains the first of them and one space,
\* prefix becomes "" and sugg_index becomes 0; with none, sentence, prefix
\* and sugg_index stay as they were.
C21_AcceptTopSuggestion ==
  [][ ( /\ now' # now
        /\ last'.act = "diagonal"
        /\ last'.dir = DIR_NE
        /\ mode = MODE_WRITE )
      => IF suggestions' # <<>>
         THEN /\ sentence' = sentence \o suggestions'[1] \o <<" ">>
              /\ prefix' = <<>>
              /\ sugg_index' = 0
         ELSE /\ sentence' = sentence
              /\ prefix' = prefix
              /\ sugg_index' = sugg_index ]_vars

\* NE has fired in WRITE on sentence "HI " and prefix "H" with a slot
\* highlighted: the top suggestion HI has gone into the sentence
C21_Witness ==
  /\ last.act = "diagonal"
  /\ last.dir = DIR_NE
  /\ last.mode = MODE_WRITE
  /\ sentence = <<"H", "I", " ", "H", "I", " ">>
  /\ prefix = <<>>
  /\ sugg_index = 0
  /\ run_fires = 1
  /\ effect_time = 0

\* the update has just committed a suggestion slot at CENTER
DidCommitSlot ==
  /\ now' # now
  /\ last'.act = "center"
  /\ last'.sel = "slot"

C23_NWTogglesMode ==
  /\ [](mode \in {MODE_WRITE, MODE_CAPTION})
  /\ [][ ( /\ now' # now
           /\ last'.act = "diagonal"
           /\ last'.dir = DIR_NW )
         => /\ mode' = (IF mode = MODE_WRITE THEN MODE_CAPTION ELSE MODE_WRITE)
            /\ sentence' = sentence
            /\ prefix' = prefix
            /\ cursor_index' = cursor_index
            /\ sugg_index' = sugg_index
            /\ transcript_scroll' = transcript_scroll ]_vars

\* NW has fired in WRITE, entered by the NE bridge: the mode is CAPTION again
\* and the bridged prefix is still there
C23_Witness ==
  /\ last.act = "diagonal"
  /\ last.dir = DIR_NW
  /\ last.mode = MODE_WRITE
  /\ mode = MODE_CAPTION
  /\ prefix = WORLD

\* C24: a tick classified E or W in CAPTION changes none of mode, the edit
\* buffer, transcript_scroll and the cardinal cooldown timestamp, so that an
\* N or S tick less than the cooldown later is not held back by it.
C24_CaptionEWIsNoOp ==
  [][ ( /\ now' # now
        /\ mode = MODE_CAPTION
        /\ direction' \in {DIR_E, DIR_W} )
      => UNCHANGED <<mode, sentence, prefix, cursor_index, sugg_index,
                     transcript_scroll, last_scroll_time>> ]_vars

\* how long after update() the renderer may read dwell_percent, tenths of a
\* second
ReadLag == 2

\* C25: dwell_percent, whenever it is read, lies in [0, 1]; it is 0 on a
\* cardinal, 0 at CENTER in CAPTION, 0 at CENTER while the clock is before
\* center_cooldown_until, and on a diagonal it is dwell_seconds over the
\* diagonal threshold, capped at 1.
C25_DwellPercentRange ==
  \A lag \in 0..ReadLag :
    LET p == DwellPercent(Cur, now + lag)
    IN /\ 0 <= p
       /\ p <= ONE
       /\ direction \in CARDINALS => p = 0
       /\ (direction = DIR_CENTER /\ mode = MODE_CAPTION) => p = 0
       /\ (direction = DIR_CENTER /\ now + lag < center_cooldown_until) => p = 0
       /\ direction \in DIAGONALS =>
            IF dwell_seconds >= DWELL_DIAGONAL_SEC THEN p = ONE
            ELSE p * DWELL_DIAGONAL_SEC = dwell_seconds * ONE

\* a diagonal whose action has fired is still held, longer than the
\* threshold again: the cap is at work
C25_Witness ==
  /\ direction \in DIAGONALS
  /\ diagonal_fired = direction
  /\ dwell_seconds > DWELL_DIAGONAL_SEC
  /\ DwellPercent(Cur, now) = ONE

\* a file whose load fails: it is missing, or it is malformed (no ngram
\* column over a data row, or a row that ends before the column)
Malformed(file) ==
  /\ file.exists
  /\ \/ ~file.has_ngram /\ file.rows # <<>>
     \/ \E k \in 1..Len(file.rows) : file.rows[k].short
FailsToLoad(file) == ~file.exists \/ Malformed(file)

\* C26: the predictor's constructor never fails on a missing or malformed
\* data file: after it, a 2- to 5-gram file that failed to load has left its
\* table empty, and a unigram file that failed to load has left unigrams
\* equal to the default word list.
C26_ConstructNeverFails ==
  result.done =>
    /\ result.raised = "none"
    /\ FailsToLoad(query.unigram_path) => unigrams = DefaultUnigrams
    /\ FailsToLoad(query.bigram_path) => bigrams = EmptyTable
    /\ FailsToLoad(query.trigram_path) => trigrams = EmptyTable
    /\ FailsToLoad(query.quadrigram_path) => quadrigrams = EmptyTable
    /\ FailsToLoad(query.pentagram_path) => pentagrams = EmptyTable

\* the samples among the values of a sequence
SamplesIn(seq) == { seq[i] : i \in 1..Len(seq) } \ {NoSample}

\* C27: under every interleaving of the reader thread and the tick loop,
\* read_latest returns the most recently stored sample if that has not been
\* returned before and None otherwise; so no sample is returned twice, a
\* sample overwritten before it was read is never returned, and update() has
\* been called once per sample returned and not at all for a None.
C27_ReadLatest ==
  /\ [][ (query.lpc = "take" /\ query'.lpc = "clear") =>
           query'.val =
             IF result.stored # NoSample
                /\ result.stored \notin SamplesIn(result.returned)
             THEN result.stored ELSE NoSample ]_vars
  /\ [](\A i, j \in 1..Len(result.returned) :
          (i < j /\ result.returned[j] # NoSample)
            => result.returned[i] < result.returned[j])
  /\ [](query.lpc = "idle" =>
          result.updates = SelectSeq(result.returned, LAMBDA v : v # NoSample))
  /\ [](~(query.rpc \in {"store", "release"}
          /\ query.lpc \in {"take", "clear", "return"}))

\* the first tick found nothing, the second found sample 2, stored over the
\* unread sample 1, and the third found nothing new
C27_Witness ==
  /\ result.returned = <<NoSample, 2, NoSample>>
  /\ result.updates = <<2>>
  /\ result.stored = 2
  /\ query.lpc = "idle"

\* where a text stands among the utterances
UtteranceNo(text) == CHOOSE k \in 1..Len(Utterances) : Utterances[k] = text

InQueue(text) == \E i \in 1..Len(tts_q) : tts_q[i] = text
Passed(text) == \E i \in 1..Len(result.passed) : result.passed[i] = text

\* C28: speak() only enqueues and leaves the worker alone; every non-blank
\* text enqueued and not dropped by clear() is in the end passed to
\* _speak_now, once only and in the order of the calls, one text at a time,
\* and an utterance that fails or times out does not keep the later ones
\* from being passed.
C28_SpeakQueue ==
  /\ [][ speak_calls' # speak_calls =>
           /\ query' = query
           /\ result' = result
           /\ LET text == Strip(speak_calls'[Len(speak_calls')])
              IN tts_q' = IF text = <<>> THEN tts_q ELSE Append(tts_q, text) ]_vars
  /\ [](\A i, j \in 1..Len(result.passed) :
          i < j => UtteranceNo(result.passed[i]) < UtteranceNo(result.passed[j]))
  /\ [](Len(result.passed) - Len(result.outcomes) \in {0, 1})
  /\ [](Len(result.passed) - Len(result.outcomes) = 1 <=> query.pc = "speak")
  /\ \A k \in 1..MaxSpeak :
       InQueue(Utterances[k])
         ~> (Passed(Utterances[k]) \/ Utterances[k] \in result.cleared)

\* HI timed out and TO, enqueued behind it, has been played all the same
C28_Witness ==
  /\ result.passed = << <<"H", "I">>, <<"T", "O">> >>
  /\ result.outcomes = <<"timeout", "played">>
  /\ result.cleared = {}

\* C29: the action lock is set for the diagonal whose action fires; once
\* set for d it stays set for d on every later tick classified d, and is
\* cleared on the first tick classified otherwise; it is only ever set for
\* the one diagonal that is being held.
C29_LockFollowsDirection ==
  /\ [](diagonal_fired \in DIAGONALS \cup {NotFired})
  /\ [](diagonal_fired # NotFired => diagonal_fired = direction)
  /\ [][ (now' # now /\ last'.act = "diagonal")
         => diagonal_fired' = direction' ]_vars
  /\ [][ (now' # now /\ diagonal_fired # NotFired)
         => diagonal_fired' = (IF direction' = diagonal_fired
                               THEN diagonal_fired ELSE NotFired) ]_vars

\* NW fired and toggled to WRITE, and has been held for three more seconds:
\* the lock is still NW's
C29_Witness ==
  /\ diagonal_fired = DIR_NW
  /\ direction = DIR_NW
  /\ mode = MODE_WRITE
  /\ dwell_seconds = DWELL_DIAGONAL_SEC + 10
  /\ run_fires = 1

\* the update has just committed the glyph under the cursor at CENTER
DidCommitGlyph ==
  /\ now' # now
  /\ last'.act = "center"
  /\ last'.sel # "slot"

\* the sentence a send starts from: prefix and a space committed into it
Committed == IF prefix # <<>> THEN sentence \o prefix \o <<" ">> ELSE sentence

\* C30: a center commit with sugg_index = 0 leaves cursor_index alone and
\* acts on the glyph under it: '_' appends prefix and a space to sentence and
\* empties prefix; '<' does the backspace; '[' does the delete-word; ']'
\* empties sentence and prefix; '.' sends the message (prefix is committed
\* into sentence and, if the trimmed sentence is non-empty, it is spoken and
\* sentence emptied); any other glyph is appended to prefix.
C30_GlyphCommit ==
  [][ DidCommitGlyph =>
        /\ sugg_index = 0
        /\ cursor_index' = cursor_index
        /\ CASE last'.sel = "_" ->
                  /\ sentence' = sentence \o prefix \o <<" ">>
                  /\ prefix' = <<>>
             [] last'.sel = "<" ->
                  /\ sentence' = Backspace(Cur).sentence
                  /\ prefix' = Backspace(Cur).prefix
             [] last'.sel = "[" ->
                  /\ sentence' = DeleteWord(Cur).sentence
                  /\ prefix' = DeleteWord(Cur).prefix
             [] last'.sel = "]" ->
                  /\ sentence' = <<>>
                  /\ prefix' = <<>>
             [] last'.sel = "." ->
                  /\ raised' = "none"
                  /\ prefix' = <<>>
                  /\ IF Strip(Committed) = <<>>
                     THEN /\ sentence' = Committed
                          /\ speak_calls' = speak_calls
                     ELSE /\ sentence' = <<>>
                          /\ speak_calls' = Append(speak_calls, Strip(Committed))
             [] OTHER ->
                  /\ prefix' = Append(prefix, last'.sel)
                  /\ sentence' = sentence ]_vars

\* the prefix-matching entries of the table of order k for the last query:
\* order 1 is the unigram list, order 2 is keyed by the last word, orders 3
\* to 5 by the last k - 1 words
HitsAt(k) ==
  LET n == Len(QueryWords)
      tbl == CASE k = 5 -> pentagrams
               [] k = 4 -> quadrigrams
               [] k = 3 -> trigrams
               [] OTHER -> bigrams
      key == IF k = 2 THEN QueryWords[n] ELSE SubSeq(QueryWords, n - k + 2, n)
  IN IF k = 1 THEN FilterByPrefix(unigrams, QueryPrefix)
     ELSE IF n >= k - 1 THEN FilterByPrefix(TableGet(tbl, key), QueryPrefix)
     ELSE <<>>

\* the hits of the highest-order table that has any
LongestContextHits ==
  IF \A k \in 1..5 : HitsAt(k) = <<>> THEN <<>>
  ELSE HitsAt(CHOOSE k \in 1..5 :
                /\ HitsAt(k) # <<>>
                /\ \A j \in (k + 1)..5 : HitsAt(j) = <<>>)

\* C31: the returned list begins with the hits of the highest-order table
\* that has a prefix-matching entry for the context, in table order and cut
\* to max_results; shorter contexts only add words after them.
C31_LongestContextFirst ==
  LET h == Take(LongestContextHits, query.max_results)
  IN Take(result.cands, Len(h)) = h

\* the five context levels get_suggestions reports
Levels == {"5G", "4G", "3G", "2G", "1G"}

\* what a call of get_suggestions returns when no table has a
\* prefix-matching entry for the query
C37_LastResort ==
  (\A k \in 1..5 : HitsAt(k) = <<>>)
    => result = [cands |-> Take(unigrams, query.max_results),
                 level |-> "1G", ctx |-> Dash]

\* a call of get_suggestions has been made: the query record differs from the
\* one the model starts with
Called ==
  query # [current_input |-> <<>>, context |-> <<>>, max_results |-> 0]

C38_NoDuplicates ==
  \A i, j \in 1..Len(result.cands) :
    result.cands[i] = result.cands[j] => i = j

\* C33: while mode is CAPTION a tick classified CENTER commits nothing,
\* however long CENTER has been held: mode, sentence, prefix, cursor_index,
\* sugg_index, suggestions, transcript_scroll and paused stay as they were.
C33_CenterInCaption ==
  [][ (now' # now /\ mode = MODE_CAPTION /\ direction' = DIR_CENTER)
        => /\ last'.act = "none"
           /\ UNCHANGED <<mode, sentence, prefix, cursor_index, sugg_index,
                          suggestions, transcript_scroll, paused>> ]_vars

\* CENTER was returned to in CAPTION and held past the cooldown and the
\* center threshold, and nothing was committed
C33_Witness ==
  /\ mode = MODE_CAPTION
  /\ direction = DIR_CENTER
  /\ center_cooldown_until > 0
  /\ now >= center_cooldown_until + DWELL_CENTER_SEC
  /\ last.act = "none"
  /\ last.dir = DIR_CENTER
  /\ prefix = <<>>
  /\ sentence = <<>>

\* C34: in CAPTION a fired SE flips paused and leaves the transcript, the
\* scroll offset, the suggestions and the speech queue alone; a fired SW
\* empties the transcript and sets transcript_scroll to 0; neither changes
\* mode, sentence, prefix, cursor_index or sugg_index.
C34_CaptionDiagonals ==
  [][ ( /\ now' # now
        /\ mode = MODE_CAPTION
        /\ last'.act = "diagonal"
        /\ last'.dir \in {DIR_SE, DIR_SW} )
        => /\ UNCHANGED <<mode, sentence, prefix, cursor_index, sugg_index>>
           /\ last'.dir = DIR_SE
                => /\ paused' = ~paused
                   /\ UNCHANGED <<transcript, partial, transcript_scroll,
                                  suggestions, ngram_level, ngram_context,
                                  tts_q, speak_calls, last_scroll_time,
                                  center_cooldown_until>>
           /\ last'.dir = DIR_SW
                => /\ transcript' = <<>>
                   /\ transcript_scroll' = 0
                   /\ paused' = paused ]_vars

\* SE fired in CAPTION with lines in the transcript: captioning is paused and
\* the lines are still there
C34_Witness ==
  /\ last.act = "diagonal"
  /\ last.dir = DIR_SE
  /\ last.mode = MODE_CAPTION
  /\ mode = MODE_CAPTION
  /\ paused
  /\ Len(transcript) = MaxLines
  /\ flash_direction = DIR_SE

\* C32: a diagonal action that fires sets flash_direction to its diagonal,
\* and after every update a flash that is still shown was triggered at most
\* 0.3 s ago.
C32_FlashExpires ==
  [][ now' # now
        => /\ last'.act = "diagonal"
                => /\ flash_direction' = direction'
                   /\ direction' \in DIAGONALS
           /\ flash_direction' # None
                => /\ effect_time' > 0
                   /\ now' - effect_time' <= FLASH_SEC ]_vars

\* a flash that outlived an update: NW fired 0.2 s ago and is still shown
C32_Witness ==
  /\ flash_direction = DIR_NW
  /\ last.act = "none"
  /\ effect_time > 0
  /\ now = effect_time + 2

\* C39: a diagonal action fires only on a tick whose direction has been the
\* same diagonal on every tick for at least 2.0 s, and at least 2.0 s after
\* the diagonal action before it; a tick classified otherwise in between
\* restarts the count.
C39_DiagonalSpacing ==
  [][ (now' # now /\ last'.act = "diagonal")
        => /\ direction' \in DIAGONALS
           /\ run_start' = run_start
           /\ direction' = direction
           /\ now' - run_start' >= DWELL_DIAGONAL_SEC
           /\ effect_time = 0 \/ now' - effect_time >= DWELL_DIAGONAL_SEC ]_vars

\* SE fired and paused the captioner, then NW fired and toggled to WRITE:
\* two diagonal actions of different diagonals
C39_Witness ==
  /\ last.act = "diagonal"
  /\ last.dir = DIR_NW
  /\ mode = MODE_WRITE
  /\ paused
  /\ effect_time = now
  /\ now - run_start >= DWELL_DIAGONAL_SEC

\* C36: in WRITE, with CENTER held since a return from off-center or a
\* center commit at t0, the tick that returns commits nothing and a later
\* tick commits exactly when it is the first at or after t0 + 1.0 s + 3.0 s.
C36_CommitAfterCooldown ==
  [][ (now' # now /\ mode = MODE_WRITE /\ direction' = DIR_CENTER)
        => IF direction # DIR_CENTER
           THEN last'.act # "center"
           ELSE last'.act = "center"
                  <=> now' >= phase_start + CENTER_COOLDOWN_SEC
                                + DWELL_CENTER_SEC ]_vars

\* two glyphs were committed in one stay at CENTER, 8.5 s after the return:
\* one of the two commits fired on a tick later than its 4.0 s
C36_Witness ==
  /\ mode = MODE_WRITE
  /\ prefix = <<"H", "H">>
  /\ last.act = "center"
  /\ direction = DIR_CENTER
  /\ now = phase_start
  /\ now = run_start + CENTER_COOLDOWN_SEC + DWELL_CENTER_SEC
             + CENTER_COOLDOWN_SEC + DWELL_CENTER_SEC + 5

\* the controller has just cleared the transcript
DidClear == query.ctl = "idle" /\ query'.ctl = "partial"

\* C35: between two clears by the controller the transcript only grows at
\* its end, under every interleaving: each step other than a clear leaves
\* the old transcript a prefix of the new, and what the controller read
\* earlier a prefix of what it reads later.
C35_AppendOnly ==
  [][ ~DidClear
        => /\ StartsWith(transcript', transcript)
           /\ StartsWith(result'.seen, result.seen) ]_vars

\* the controller read the transcript when it had one line; it has two now,
\* the first of them the line that was read
C35_Witness ==
  /\ Len(result.seen) = 1
  /\ Len(transcript) = 2
  /\ transcript[1] # transcript[2]
  /\ StartsWith(transcript, result.seen)
  /\ query.ctl = "idle"

\* C40: whatever the interleaving of the audio callback, the recognition
\* thread and toggle_pause, a line is appended to the transcript only while
\* paused is false.
C40_NoAppendWhilePaused ==
  [][ Len(transcript') > Len(transcript) => ~paused ]_vars

====
